---- MODULE Spec2Model ----
(***************************************************************************)
(* EnglishWordMaster: the three quiz controllers (ListenSpell, FillBlank,  *)
(* LetterPuzzle), the word-game utilities they call, the application shell *)
(* that receives their results and the history store the shell writes.     *)
(*                                                                         *)
(* A JavaScript string is a sequence of one-character strings, so that     *)
(* trim, toLowerCase, split, map and join are computed and not assumed.    *)
(* A React event handler is one action: the state updates it queues and    *)
(* the effects that run on the following render are applied in the same    *)
(* step.  Values a handler reads through its closure are the unprimed      *)
(* variables of the step, also when the handler has queued an update of    *)
(* the same state before reading it.                                       *)
(***************************************************************************)
EXTENDS Integers, Sequences, FiniteSets, Bags, TLC

(***************************************************************************)
(* Bounds of the exploration                                               *)
(***************************************************************************)
\* longest initial word list of a session of Spec
MaxWords == 4
\* most incorrect or skipped attempts the learner makes in one session
MaxMisses == 2
\* seconds the learner lets pass on one word in Spec (below TIMEOUT_SECONDS)
MaxTick == 1
\* longest initial word list of a session of SpecDetail
MaxDetailWords == 1
\* seconds explored after the 30 seconds of a word have passed, in SpecDetail
MaxOvertime == 1
\* longest results list of all shapes handed to App.handleComplete in SpecStats
MaxResults == 3
\* longest session of hint-free results handed over in SpecStats
MaxSession == 40
\* most hints taken on one word in the results of SpecStats
MaxHints == 2
\* most entries the history grows to in SpecHistory
MaxHistory == 3
\* most speak and stop calls made in SpecSpeech
MaxCalls == 2
\* most words the learner asks for in SpecPick
MaxPick == 3

(***************************************************************************)
(* Strings                                                                 *)
(***************************************************************************)
cat == <<"c", "a", "t">>
dog == <<"d", "o", "g">>
sun == <<"s", "u", "n">>
pen == <<"p", "e", "n">>
map == <<"m", "a", "p">>
box == <<"b", "o", "x">>
book == <<"b", "o", "o", "k">>
EMPTY == << >>
BLANK == <<" ">>
WRONG == <<"z">>
SKIPPED == <<"(", "s", "k", "i", "p", "p", "e", "d", ")">>

Min(a, b) == IF a < b THEN a ELSE b

\* String.prototype.toLowerCase, one character
LowerChar(c) ==
    CASE c = "A" -> "a" [] c = "B" -> "b" [] c = "C" -> "c" [] c = "D" -> "d"
      [] c = "E" -> "e" [] c = "G" -> "g" [] c = "K" -> "k" [] c = "M" -> "m"
      [] c = "N" -> "n" [] c = "O" -> "o" [] c = "P" -> "p" [] c = "S" -> "s"
      [] c = "T" -> "t" [] c = "U" -> "u" [] c = "X" -> "x" [] c = "Z" -> "z"
      [] OTHER -> c

UpperChar(c) ==
    CASE c = "a" -> "A" [] c = "b" -> "B" [] c = "c" -> "C" [] c = "d" -> "D"
      [] c = "e" -> "E" [] c = "g" -> "G" [] c = "k" -> "K" [] c = "m" -> "M"
      [] c = "n" -> "N" [] c = "o" -> "O" [] c = "p" -> "P" [] c = "s" -> "S"
      [] c = "t" -> "T" [] c = "u" -> "U" [] c = "x" -> "X" [] c = "z" -> "Z"
      [] OTHER -> c

toLowerCase(s) == [i \in 1..Len(s) |-> LowerChar(s[i])]

toUpperCase(s) == [i \in 1..Len(s) |-> UpperChar(s[i])]

RECURSIVE trimStart(_)
trimStart(s) == IF s # << >> /\ Head(s) = " " THEN trimStart(Tail(s)) ELSE s

RECURSIVE trimEnd(_)
trimEnd(s) ==
    IF s # << >> /\ s[Len(s)] = " " THEN trimEnd(SubSeq(s, 1, Len(s) - 1)) ELSE s

\* String.prototype.trim
trim(s) == trimEnd(trimStart(s))

(***************************************************************************)
(* Word-game utilities (utils/wordHelpers)                                 *)
(***************************************************************************)
\* mutant of checkAnswer: the comparison keeps the letter case
checkAnswerExact(userAnswer, correctWord) ==
    trim(userAnswer) = trim(correctWord)

checkAnswer(userAnswer, correctWord) ==
    toLowerCase(trim(userAnswer)) = toLowerCase(trim(correctWord))

\* Math.floor(word.length / 2) and the modulo tests are over 0-based indices:
\* position i of the sequence is index i - 1 of the string
\* mutant of generateLetterPuzzle: long words are masked like medium ones
generateLetterPuzzleOddOnly(word) ==
    IF Len(word) <= 3
    THEN [i \in 1..Len(word) |-> IF i - 1 = Len(word) \div 2 THEN "_" ELSE word[i]]
    ELSE [i \in 1..Len(word) |-> IF (i - 1) % 2 = 1 THEN "_" ELSE word[i]]

generateLetterPuzzle(word) ==
    IF Len(word) <= 3
    THEN [i \in 1..Len(word) |-> IF i - 1 = Len(word) \div 2 THEN "_" ELSE word[i]]
    ELSE IF Len(word) <= 6
    THEN [i \in 1..Len(word) |-> IF (i - 1) % 2 = 1 THEN "_" ELSE word[i]]
    ELSE [i \in 1..Len(word) |->
             IF (i - 1) % 3 = 1 \/ (i - 1) % 5 = 2 THEN "_" ELSE word[i]]

hiddenIndices(currentPuzzle) == {i \in 1..Len(currentPuzzle) : currentPuzzle[i] = "_"}

\* mutant of getHint: the revealed position gets the word's first letter
getHintFirstLetter(currentPuzzle, correctWord) ==
    IF hiddenIndices(currentPuzzle) = {}
    THEN {currentPuzzle}
    ELSE {[currentPuzzle EXCEPT ![r] = correctWord[1]] : r \in hiddenIndices(currentPuzzle)}

\* every puzzle getHint can return: one per outcome of Math.random
getHint(currentPuzzle, correctWord) ==
    IF hiddenIndices(currentPuzzle) = {}
    THEN {currentPuzzle}
    ELSE {[currentPuzzle EXCEPT ![r] = correctWord[r]] : r \in hiddenIndices(currentPuzzle)}

\* shuffleArray(array) for every outcome of Math.random: array is the argument
\* as the call leaves it, shuffled the sequence returned.  The loop runs i from
\* length - 1 down to 1 with j in 0..i; positions are 1-based here.
shuffleArrayInPlace(array) ==
    LET Swap(s, i, j) == [s EXCEPT ![i] = s[j], ![j] = s[i]]
        RECURSIVE From(_, _)
        From(S, i) ==
            IF i < 2 THEN S ELSE From({Swap(s, i, j) : s \in S, j \in 1..i}, i - 1)
    IN  {[array |-> s, shuffled |-> s] : s \in From({array}, Len(array))}

shuffleArray(array) ==
    LET Swap(s, i, j) == [s EXCEPT ![i] = s[j], ![j] = s[i]]
        RECURSIVE From(_, _)
        From(S, i) ==
            IF i < 2 THEN S ELSE From({Swap(s, i, j) : s \in S, j \in 1..i}, i - 1)
    IN  {[array |-> array, shuffled |-> s] : s \in From({array}, Len(array))}

\* Array.prototype.slice(0, count)
slice(s, count) == SubSeq(s, 1, Min(count, Len(s)))

\* mutant of generateWrongOptions: the correct word is not filtered out
generateWrongOptionsUnfiltered(allWords, correctWord, count) ==
    {slice(r.shuffled, count) :
        r \in shuffleArray([i \in 1..Len(allWords) |-> allWords[i].word])}

\* every list generateWrongOptions can return
generateWrongOptions(allWords, correctWord, count) ==
    LET Other(w) == w.word # correctWord
        kept == SelectSeq(allWords, Other)
        wrongOptions == [i \in 1..Len(kept) |-> kept[i].word]
    IN  {slice(r.shuffled, count) : r \in shuffleArray(wrongOptions)}

RECURSIVE SeqToBag(_)
SeqToBag(s) == IF s = << >> THEN EmptyBag ELSE SetToBag({Head(s)}) (+) SeqToBag(Tail(s))

(***************************************************************************)
(* JavaScript numbers: IEEE 754 binary64 arithmetic on the quotient of two *)
(* small naturals.  A big natural is a sequence of six digits in base      *)
(* 4096, most significant first.  A positive number is                     *)
(* [mant |-> m, scale |-> k] with m its 53-digit binary significand as a   *)
(* big natural (2^52 <= m < 2^53) and value m / 2^k; zero has mant Big(0).  *)
(***************************************************************************)
Base == 4096

\* the big natural of a natural below 2^24
Big(n) == <<0, 0, 0, 0, n \div Base, n % Base>>

\* the natural of a big natural below 2^24
BigValue(x) == x[5] * Base + x[6]

\* x * m for a natural m <= 2^12, the product below 2^72
BigTimes(x, m) ==
    LET Carry[i \in 1..7] == IF i = 7 THEN 0 ELSE (x[i] * m + Carry[i + 1]) \div Base
    IN  [i \in 1..6 |-> (x[i] * m + Carry[i + 1]) % Base]

\* x + 1
BigIncrement(x) ==
    LET Carry[i \in 1..7] == IF i = 7 THEN 1 ELSE (x[i] + Carry[i + 1]) \div Base
    IN  [i \in 1..6 |-> (x[i] + Carry[i + 1]) % Base]

\* quotient and remainder of x by a natural 0 < d < 2^18
BigDivide(x, d) ==
    LET Rem[i \in 0..6] == IF i = 0 THEN 0 ELSE (Rem[i - 1] * Base + x[i]) % d
    IN  [quot |-> [i \in 1..6 |-> (Rem[i - 1] * Base + x[i]) \div d],
         rem |-> Rem[6]]

\* x < y
BigLess(x, y) ==
    \E i \in 1..6 : x[i] < y[i] /\ \A j \in 1..(i - 1) : x[j] = y[j]

\* x * 2^(12 * n) and the whole part of x / 2^(12 * n)
BigShiftLeft(x, n) == [i \in 1..6 |-> IF i + n <= 6 THEN x[i + n] ELSE 0]

BigShiftRight(x, n) == [i \in 1..6 |-> IF i - n >= 1 THEN x[i - n] ELSE 0]

\* 2^52, 2^53 and 2^59 as big naturals
TwoTo52 == <<0, 16, 0, 0, 0, 0>>

TwoTo53 == <<0, 32, 0, 0, 0, 0>>

TwoTo59 == <<0, 2048, 0, 0, 0, 0>>

\* round to nearest, ties to even: the number m / 2^scale, 2^52 <= m < 2^53,
\* plus a remainder below one unit of m that is at least half a unit iff
\* guard = 1 and exactly zero or half iff ~sticky
RoundToDouble(m, guard, sticky, scale) ==
    LET up == guard = 1 /\ (sticky \/ m[6] % 2 = 1)
        r == IF up THEN BigIncrement(m) ELSE m
    IN  IF r = TwoTo53 THEN [mant |-> TwoTo52, scale |-> scale - 1]
        ELSE [mant |-> r, scale |-> scale]

\* smallest e with a * 2^e >= b, for 0 < a <= b
ShiftTo(a, b) ==
    CHOOSE e \in 0..15 : a * (2 ^ e) >= b /\ \A d \in 0..(e - 1) : a * (2 ^ d) < b

\* a / b for naturals 0 <= a <= b, 0 < b < 2^15
NumberDivide(a, b) ==
    IF a = 0 THEN [mant |-> Big(0), scale |-> 0]
    ELSE LET e == ShiftTo(a, b)
             \* a * 2^e * 2^53 / b: the significand followed by the guard digit
             q == BigDivide(BigTimes(BigShiftLeft(Big(a * (2 ^ e)), 4), 32), b)
             halved == BigDivide(q.quot, 2)
         IN  RoundToDouble(halved.quot, halved.rem, q.rem # 0, e + 52)

\* x * 100
NumberTimes100(x) ==
    IF x.mant = Big(0) THEN x
    ELSE LET p == BigTimes(x.mant, 100)
             \* 2^58 < p < 2^60: 6 or 7 binary digits too many
             dropped == IF BigLess(p, TwoTo59) THEN 6 ELSE 7
             q == BigDivide(p, 2 ^ dropped)
         IN  RoundToDouble(q.quot, q.rem \div (2 ^ (dropped - 1)),
                           q.rem % (2 ^ (dropped - 1)) # 0, x.scale - dropped)

\* Math.round(x) for 0 <= x < 2^22: floor(x + 0.5), from the whole part of 2x
MathRound(x) ==
    IF x.mant = Big(0) \/ x.scale > 54 THEN 0
    ELSE LET n == x.scale - 1
             twice == BigDivide(BigShiftRight(x.mant, n \div 12), 2 ^ (n % 12)).quot
         IN  (BigValue(twice) + 1) \div 2

\* Math.round((a / b) * 100) for naturals 0 <= a <= b, 0 < b < 2^15
RoundPercent(a, b) == MathRound(NumberTimes100(NumberDivide(a, b)))

\* r.hintsUsed || 0 and r.timeout of a result that may lack the field
\* (fill-blank results carry neither)
HintsOf(r) == IF "hintsUsed" \in DOMAIN r THEN r.hintsUsed ELSE 0

TimeoutOf(r) == IF "timeout" \in DOMAIN r THEN r.timeout ELSE FALSE

\* mutant of calculateStats: correct counts the answers right without a hint
calculateStatsHintFree(results_) ==
    LET Filter(Test(_)) == {i \in 1..Len(results_) : Test(results_[i])}
        Hinted(r) == HintsOf(r) > 0
        TimedOut(r) == TimeoutOf(r)
        Correct(r) == r.correct
        CorrectNoHint(r) == r.correct /\ HintsOf(r) = 0
        NoHint(r) == HintsOf(r) = 0
        SumHints[i \in 0..Len(results_)] ==
            IF i = 0 THEN 0 ELSE SumHints[i - 1] + HintsOf(results_[i])
        total == Len(results_)
        allCorrect == Cardinality(Filter(Correct))
        withoutHints == Cardinality(Filter(NoHint))
        correctWithoutHints == Cardinality(Filter(CorrectNoHint))
    IN  [total |-> total,
         correct |-> correctWithoutHints,
         incorrect |-> total - allCorrect,
         accuracy |-> IF withoutHints > 0
                      THEN RoundPercent(correctWithoutHints, withoutHints) ELSE 0,
         withHints |-> Cardinality(Filter(Hinted)),
         withoutHints |-> withoutHints,
         correctWithoutHints |-> correctWithoutHints,
         totalHintsUsed |-> SumHints[Len(results_)],
         timeoutCount |-> Cardinality(Filter(TimedOut))]

\* calculateStats(results) of the current wordHelpers
calculateStats(results_) ==
    LET Filter(Test(_)) == {i \in 1..Len(results_) : Test(results_[i])}
        Hinted(r) == HintsOf(r) > 0
        TimedOut(r) == TimeoutOf(r)
        Correct(r) == r.correct
        CorrectNoHint(r) == r.correct /\ HintsOf(r) = 0
        NoHint(r) == HintsOf(r) = 0
        SumHints[i \in 0..Len(results_)] ==
            IF i = 0 THEN 0 ELSE SumHints[i - 1] + HintsOf(results_[i])
        total == Len(results_)
        allCorrect == Cardinality(Filter(Correct))
        withoutHints == Cardinality(Filter(NoHint))
        correctWithoutHints == Cardinality(Filter(CorrectNoHint))
    IN  [total |-> total,
         correct |-> allCorrect,
         incorrect |-> total - allCorrect,
         accuracy |-> IF withoutHints > 0
                      THEN RoundPercent(correctWithoutHints, withoutHints) ELSE 0,
         withHints |-> Cardinality(Filter(Hinted)),
         withoutHints |-> withoutHints,
         correctWithoutHints |-> correctWithoutHints,
         totalHintsUsed |-> SumHints[Len(results_)],
         timeoutCount |-> Cardinality(Filter(TimedOut))]

(***************************************************************************)
(* History store (utils/storageHelper)                                     *)
(***************************************************************************)
\* localStorage holds at most one item under HISTORY_KEY: << >> when the key is
\* not set (getItem returns null), <<text>> when it is set to text

\* a text under HISTORY_KEY is [kind, items]: JSON.stringify(history) is the
\* text of an array; other code of the origin, an older version or the user
\* may have left the text null, the text of an object, a text that is not
\* JSON, or the empty text
JSONstringify(history) == [kind |-> "array", items |-> history]

NullText == [kind |-> "null", items |-> << >>]

ObjectText == [kind |-> "object", items |-> << >>]

BrokenText == [kind |-> "broken", items |-> << >>]

EmptyText == [kind |-> "empty", items |-> << >>]

\* JSON.parse(text): the array, null or object the text denotes, as
\* [kind, items]; kind "throws" when it raises a SyntaxError
JSONparse(text) ==
    IF text.kind \in {"broken", "empty"} THEN [kind |-> "throws", items |-> << >>]
    ELSE text

\* the value getHistory() returns, as [kind, items]: the empty array when
\* getItem gives null or the empty text (both falsy) and when JSON.parse throws
getHistory(stored) ==
    IF stored = << >> \/ stored[1].kind = "empty" THEN JSONstringify(<< >>)
    ELSE LET history == JSONparse(stored[1])
         IN  IF history.kind = "throws" THEN JSONstringify(<< >>) ELSE history

\* mutant of saveToHistory: the new entry replaces the stored history
saveToHistoryAlone(stored, session) == <<JSONstringify(<<session>>)>>

\* mutant of saveToHistory: the new entry is put after the stored history
saveToHistoryAtEnd(stored, session) ==
    <<JSONstringify(Append(getHistory(stored).items, session))>>

\* localStorage after saveToHistory(session); id and timestamp of the new
\* entry come from the wall clock and are read by no operation.  unshift on
\* a value that is not an array raises a TypeError, which the catch logs:
\* nothing is stored.  setItem is taken to succeed.
saveToHistory(stored, session) ==
    LET history == getHistory(stored)
    IN  IF history.kind = "array"
        THEN <<JSONstringify(<<session>> \o history.items)>>
        ELSE stored

\* mutant of clearHistory: only the newest entry is removed
clearHistoryNewest(stored) ==
    IF getHistory(stored).items = << >> THEN stored
    ELSE <<JSONstringify(Tail(getHistory(stored).items))>>

\* localStorage after clearHistory(): removeItem(HISTORY_KEY)
clearHistory(stored) == << >>

(***************************************************************************)
(* State                                                                   *)
(***************************************************************************)
VARIABLES
    currentMode,      \* App: "menu", a quiz mode, or "results"
    currentModeName,  \* App: display name of the mode started last
    selectedWords,    \* App: word list handed to the controller
    appResults,       \* App: results received through onComplete
    storage,          \* localStorage record under HISTORY_KEY
    words,            \* controller: working sequence of SessionWord
    currentIndex,     \* controller: 0-based index of the current word
    userInput,        \* ListenSpell, LetterPuzzle: text field
    selectedAnswer,   \* FillBlank: option selected
    showAnswer,       \* controller: the current word has been answered
    isCorrect,        \* controller: "null", "true" or "false"
    results,          \* controller: AnswerResult per attempt
    elapsedTime,      \* ListenSpell: seconds on the current word
    isTimeout,        \* ListenSpell: timeout flag of the current word
    timerRef,         \* ListenSpell: the interval is set and not cleared
    puzzle,           \* LetterPuzzle: masked word shown
    hintsUsed,        \* LetterPuzzle: hints taken on the current word
    options,          \* FillBlank: options offered, as a bag of strings
    hook,             \* useSpeech: "rendered", "mounted" or "unmounted"
    isSpeaking,       \* useSpeech: state isSpeaking
    isSupported,      \* useSpeech: state isSupported
    audioSource,      \* useSpeech: "hybrid", "dictionary" or "webspeech"
    audioRef,         \* useSpeech: audioRef.current is "null" or the "element"
    audio,            \* the Audio element: src, handlers, load state, playing
    synth,            \* window.speechSynthesis: the utterance queued or spoken
    calls             \* useSpeech: the speak and stop calls made, in order

appVars == <<currentMode, currentModeName, selectedWords, appResults, storage>>

ctlVars == <<words, currentIndex, userInput, selectedAnswer, showAnswer, isCorrect,
             results, elapsedTime, isTimeout, timerRef, puzzle, hintsUsed, options>>

speechVars == <<hook, isSpeaking, isSupported, audioSource, audioRef, audio, synth,
                calls>>

vars == <<appVars, ctlVars, speechVars>>

LISTEN_SPELL == "listen-spell"
FILL_BLANK == "fill-blank"
LETTER_PUZZLE == "letter-puzzle"
MENU == "menu"
RESULTS == "results"

QuizModes == {LISTEN_SPELL, FILL_BLANK, LETTER_PUZZLE}

MODE_NAMES(mode) ==
    CASE mode = LISTEN_SPELL -> "ListenSpell"
      [] mode = FILL_BLANK -> "FillBlank"
      [] mode = LETTER_PUZZLE -> "LetterPuzzle"

TIMEOUT_SECONDS == 30

\* the word dataset (data/k8-s1.json): WordEntry records, no word twice
k8Words == <<[word |-> cat], [word |-> dog], [word |-> sun],
             [word |-> pen], [word |-> map], [word |-> box]>>

currentWord == words[currentIndex + 1]

\* the phase of §4.3 as the render functions decide it
Phase ==
    IF currentMode = RESULTS THEN "Complete"
    ELSE IF currentMode \notin QuizModes THEN "None"
    ELSE IF showAnswer THEN "Answered" ELSE "Presenting"

(***************************************************************************)
(* Construction                                                            *)
(***************************************************************************)
\* every option list FillBlank's options effect can produce for the word at
\* 0-based index idx of ws; the order of the option buttons is read by no
\* handler, so the list is kept as a bag
OptionLists(ws, idx) ==
    {SeqToBag(<<ws[idx + 1].word>> \o wrongOpts) :
        wrongOpts \in generateWrongOptions(ws, ws[idx + 1].word, 3)}

\* the Audio element with nothing loaded, and the synthesis queue empty
IdleAudio == [src |-> EMPTY, handlers |-> 0, load |-> "empty", playing |-> FALSE]

IdleSynth ==
    [phase |-> "idle", call |-> 0, text |-> EMPTY, lang |-> "", rate |-> "",
     paused |-> FALSE]

\* the speech service as the specifications of the controllers and of App
\* keep it: mounted, nothing requested
SpeechAside ==
    /\ hook = "mounted"
    /\ isSpeaking = FALSE
    /\ isSupported = TRUE
    /\ audioSource = "hybrid"
    /\ audioRef = "element"
    /\ audio = IdleAudio
    /\ synth = IdleSynth
    /\ calls = << >>

\* the controller state after the first render and its effects
Mounted(mode, initialWords, opts) ==
    /\ words = [i \in 1..Len(initialWords) |->
                   [word |-> initialWords[i].word, retryCount |-> 0]]
    /\ currentIndex = 0
    /\ userInput = EMPTY
    /\ selectedAnswer = EMPTY
    /\ showAnswer = FALSE
    /\ isCorrect = "null"
    /\ results = << >>
    /\ elapsedTime = 0
    /\ isTimeout = FALSE
    /\ timerRef = (mode = LISTEN_SPELL /\ initialWords # << >>)
    /\ puzzle = IF mode = LETTER_PUZZLE /\ initialWords # << >>
                THEN generateLetterPuzzle(initialWords[1].word) ELSE EMPTY
    /\ hintsUsed = 0
    /\ options = opts

\* App after startMode(mode, count) selected initialWords, with the controller
\* of the mode mounted
SessionStarted(mode, initialWords, stored) ==
    /\ currentMode = mode
    /\ currentModeName = MODE_NAMES(mode)
    /\ selectedWords = initialWords
    /\ appResults = << >>
    /\ storage = stored
    /\ SpeechAside
    /\ \E opts \in (IF mode = FILL_BLANK /\ initialWords # << >>
                    THEN OptionLists([i \in 1..Len(initialWords) |->
                                         [word |-> initialWords[i].word,
                                          retryCount |-> 0]], 0)
                    ELSE {EmptyBag}) :
           Mounted(mode, initialWords, opts)

(***************************************************************************)
(* App.handleComplete                                                      *)
(***************************************************************************)
handleComplete(gameResults) ==
    LET stats == calculateStats(gameResults)
    IN  /\ appResults' = gameResults
        /\ currentMode' = RESULTS
        /\ storage' = saveToHistory(storage,
                          [mode |-> currentModeName,
                           wordCount |-> Len(gameResults),
                           correct |-> stats.correct,
                           incorrect |-> stats.incorrect,
                           accuracy |-> stats.accuracy,
                           withHints |-> stats.withHints,
                           totalHintsUsed |-> stats.totalHintsUsed,
                           timeoutCount |-> stats.timeoutCount])
        /\ UNCHANGED <<currentModeName, selectedWords, speechVars>>

(***************************************************************************)
(* handleNext, the same in the three controllers                           *)
(***************************************************************************)
\* mutants of insertPosition: the copy appended at the end; the copy two places on
insertPositionAtEnd(index, length) == length

insertPositionTwoOn(index, length) == Min(index + 2, length)

\* mutant of insertPosition: the copy put where the current word stands
insertPositionHere(index, length) == index

insertPosition(index, length) == Min(index + 3, length)

\* updatedWords.splice(pos, 0, entry), pos a 0-based index
splice(ws, pos, entry) == SubSeq(ws, 1, pos) \o <<entry>> \o SubSeq(ws, pos + 1, Len(ws))

\* mutant of updatedWords: a missed copy is copied again
updatedWordsEveryMiss ==
    IF isCorrect # "true"
    THEN splice(words, insertPosition(currentIndex, Len(words)),
                [currentWord EXCEPT !.retryCount = 1])
    ELSE words

\* the working sequence after the retry test of handleNext
updatedWords ==
    IF isCorrect # "true" /\ currentWord.retryCount = 0
    THEN splice(words, insertPosition(currentIndex, Len(words)),
                [currentWord EXCEPT !.retryCount = 1])
    ELSE words

hasNextWord == currentIndex < Len(words) - 1

\* handleNext as the closure of the current render runs it: isCorrect, words,
\* currentIndex and results are the values of that render.  results' is left
\* to the caller (handleSkip queues its own update of results first).
handleNext(mode) ==
    /\ words' = updatedWords
    /\ IF hasNextWord
       THEN /\ currentIndex' = currentIndex + 1
            /\ userInput' = EMPTY
            /\ selectedAnswer' = EMPTY
            /\ showAnswer' = FALSE
            /\ isCorrect' = "null"
            \* effects of the next render
            /\ elapsedTime' = 0
            /\ isTimeout' = FALSE
            /\ timerRef' = (mode = LISTEN_SPELL)
            /\ puzzle' = IF mode = LETTER_PUZZLE
                         THEN generateLetterPuzzle(words'[currentIndex' + 1].word)
                         ELSE puzzle
            /\ hintsUsed' = 0
            /\ options' \in (IF mode = FILL_BLANK
                             THEN OptionLists(words', currentIndex')
                             ELSE {options})
            /\ UNCHANGED <<speechVars, appVars>>
       ELSE /\ handleComplete(results)
            \* App renders the results and unmounts the controller: the timer
            \* effect's cleanup runs; words' and results' are the updates the
            \* handler queued before the unmount
            /\ timerRef' = FALSE
            /\ UNCHANGED <<currentIndex, userInput, selectedAnswer, showAnswer,
                           isCorrect, elapsedTime, isTimeout, puzzle, hintsUsed,
                           options>>

\* the learner's attempts that were incorrect or skipped so far
Misses == Cardinality({k \in 1..Len(results) : ~results[k].correct})

LearnerMayMiss == Misses < MaxMisses

Bool(b) == IF b THEN "true" ELSE "false"

\* mutant of withResult: the new result put in front
withResultFirst(rs, r) == <<r>> \o rs

\* [...results, r]
withResult(rs, r) == Append(rs, r)

\* mutant of skippedAnswer: the placeholder whatever was typed
skippedAnswerAlways(input) == SKIPPED

\* userInput || '(skipped)'
skippedAnswer(input) == IF input # EMPTY THEN input ELSE SKIPPED

(***************************************************************************)
(* ListenSpell                                                             *)
(***************************************************************************)
LS_onChange(value) ==
    /\ currentMode = LISTEN_SPELL
    /\ ~showAnswer
    /\ value # userInput
    /\ userInput' = value
    /\ UNCHANGED <<speechVars, appVars, words, currentIndex, selectedAnswer, showAnswer, isCorrect,
                   results, elapsedTime, isTimeout, timerRef, puzzle, hintsUsed, options>>

\* mutant of LS_tick: the expiry also closes the word as answered
LS_tickClosing(cap) ==
    /\ currentMode = LISTEN_SPELL
    /\ timerRef
    /\ elapsedTime < cap
    /\ elapsedTime' = elapsedTime + 1
    /\ isTimeout' = (isTimeout \/ elapsedTime + 1 >= TIMEOUT_SECONDS)
    /\ showAnswer' = (elapsedTime + 1 >= TIMEOUT_SECONDS)
    /\ timerRef' = ~showAnswer'
    /\ UNCHANGED <<speechVars, appVars, words, currentIndex, userInput, selectedAnswer,
                   isCorrect, results, puzzle, hintsUsed, options>>

\* mutant of LS_tick: the flag is set one second early
LS_tickEarly(cap) ==
    /\ currentMode = LISTEN_SPELL
    /\ timerRef
    /\ elapsedTime < cap
    /\ elapsedTime' = elapsedTime + 1
    /\ isTimeout' = (isTimeout \/ elapsedTime + 2 >= TIMEOUT_SECONDS)
    /\ UNCHANGED <<speechVars, appVars, words, currentIndex, userInput, selectedAnswer, showAnswer,
                   isCorrect, results, timerRef, puzzle, hintsUsed, options>>

\* one run of the setInterval callback; cap bounds the seconds explored
LS_tick(cap) ==
    /\ currentMode = LISTEN_SPELL
    /\ timerRef
    /\ elapsedTime < cap
    /\ elapsedTime' = elapsedTime + 1
    /\ isTimeout' = (isTimeout \/ elapsedTime + 1 >= TIMEOUT_SECONDS)
    /\ UNCHANGED <<speechVars, appVars, words, currentIndex, userInput, selectedAnswer, showAnswer,
                   isCorrect, results, timerRef, puzzle, hintsUsed, options>>

\* mutant of LS_handleSubmit: the answer is recorded but not shown
LS_handleSubmitNotShown ==
    /\ currentMode = LISTEN_SPELL
    /\ ~showAnswer
    /\ Len(results) = currentIndex
    /\ trim(userInput) # EMPTY
    /\ LET correct == checkAnswer(userInput, currentWord.word)
       IN  /\ correct \/ LearnerMayMiss
           /\ timerRef' = FALSE
           /\ isCorrect' = Bool(correct)
           /\ results' = Append(results, [word |-> currentWord.word,
                                          correct |-> correct,
                                          userAnswer |-> userInput,
                                          timeout |-> isTimeout,
                                          hintsUsed |-> 0])
    /\ UNCHANGED <<speechVars, appVars, words, currentIndex, userInput, selectedAnswer, showAnswer,
                   elapsedTime, isTimeout, puzzle, hintsUsed, options>>

LS_handleSubmit ==
    /\ currentMode = LISTEN_SPELL
    /\ ~showAnswer
    /\ trim(userInput) # EMPTY
    /\ LET correct == checkAnswer(userInput, currentWord.word)
       IN  /\ correct \/ LearnerMayMiss
           /\ timerRef' = FALSE
           /\ isCorrect' = Bool(correct)
           /\ showAnswer' = TRUE
           /\ results' = withResult(results, [word |-> currentWord.word,
                                          correct |-> correct,
                                          userAnswer |-> userInput,
                                          timeout |-> isTimeout,
                                          hintsUsed |-> 0])
    /\ UNCHANGED <<speechVars, appVars, words, currentIndex, userInput, selectedAnswer,
                   elapsedTime, isTimeout, puzzle, hintsUsed, options>>

LS_handleNext ==
    /\ currentMode = LISTEN_SPELL
    /\ showAnswer
    /\ results' = results
    /\ handleNext(LISTEN_SPELL)

LS_handleSkip ==
    /\ currentMode = LISTEN_SPELL
    /\ ~showAnswer
    /\ LearnerMayMiss
    /\ results' = withResult(results, [word |-> currentWord.word,
                                   correct |-> FALSE,
                                   userAnswer |-> skippedAnswer(userInput),
                                   timeout |-> isTimeout,
                                   hintsUsed |-> 0])
    /\ handleNext(LISTEN_SPELL)

(***************************************************************************)
(* FillBlank                                                               *)
(***************************************************************************)
FB_handleSelectOption(option) ==
    /\ currentMode = FILL_BLANK
    /\ ~showAnswer
    /\ BagIn(option, options)
    /\ option # selectedAnswer
    /\ selectedAnswer' = option
    /\ UNCHANGED <<speechVars, appVars, words, currentIndex, userInput, showAnswer, isCorrect,
                   results, elapsedTime, isTimeout, timerRef, puzzle, hintsUsed, options>>

FB_handleSubmit ==
    /\ currentMode = FILL_BLANK
    /\ ~showAnswer
    /\ selectedAnswer # EMPTY
    /\ LET correct == checkAnswer(selectedAnswer, currentWord.word)
       IN  /\ correct \/ LearnerMayMiss
           /\ isCorrect' = Bool(correct)
           /\ showAnswer' = TRUE
           /\ results' = withResult(results, [word |-> currentWord.word,
                                          correct |-> correct,
                                          userAnswer |-> selectedAnswer])
    /\ UNCHANGED <<speechVars, appVars, words, currentIndex, userInput, selectedAnswer,
                   elapsedTime, isTimeout, timerRef, puzzle, hintsUsed, options>>

FB_handleNext ==
    /\ currentMode = FILL_BLANK
    /\ showAnswer
    /\ results' = results
    /\ handleNext(FILL_BLANK)

FB_handleSkip ==
    /\ currentMode = FILL_BLANK
    /\ ~showAnswer
    /\ LearnerMayMiss
    /\ results' = withResult(results, [word |-> currentWord.word,
                                   correct |-> FALSE,
                                   userAnswer |-> SKIPPED])
    /\ handleNext(FILL_BLANK)

(***************************************************************************)
(* LetterPuzzle                                                            *)
(***************************************************************************)
LP_onChange(value) ==
    /\ currentMode = LETTER_PUZZLE
    /\ ~showAnswer
    /\ value # userInput
    /\ userInput' = value
    /\ UNCHANGED <<speechVars, appVars, words, currentIndex, selectedAnswer, showAnswer, isCorrect,
                   results, elapsedTime, isTimeout, timerRef, puzzle, hintsUsed, options>>

\* mutant of hintEnabled: the button stays enabled after the answer
hintEnabledAfterAnswer == hiddenIndices(puzzle) # {}

\* the hint button is disabled when no "_" is left or the answer is shown
hintEnabled == hiddenIndices(puzzle) # {} /\ ~showAnswer

\* mutant of LP_handleHint: the hint is not counted
LP_handleHintUncounted ==
    /\ currentMode = LETTER_PUZZLE
    /\ hintEnabled
    /\ puzzle' \in getHint(puzzle, currentWord.word)
    /\ UNCHANGED <<speechVars, appVars, words, currentIndex, userInput, selectedAnswer, showAnswer,
                   isCorrect, results, elapsedTime, isTimeout, timerRef, hintsUsed, options>>

LP_handleHint ==
    /\ currentMode = LETTER_PUZZLE
    /\ hintEnabled
    /\ puzzle' \in getHint(puzzle, currentWord.word)
    /\ hintsUsed' = hintsUsed + 1
    /\ UNCHANGED <<speechVars, appVars, words, currentIndex, userInput, selectedAnswer, showAnswer,
                   isCorrect, results, elapsedTime, isTimeout, timerRef, options>>

LP_handleSubmit ==
    /\ currentMode = LETTER_PUZZLE
    /\ ~showAnswer
    /\ trim(userInput) # EMPTY
    /\ LET correct == checkAnswer(userInput, currentWord.word)
       IN  /\ correct \/ LearnerMayMiss
           /\ isCorrect' = Bool(correct)
           /\ showAnswer' = TRUE
           /\ results' = withResult(results, [word |-> currentWord.word,
                                          correct |-> correct,
                                          userAnswer |-> userInput,
                                          hintsUsed |-> hintsUsed])
    /\ UNCHANGED <<speechVars, appVars, words, currentIndex, userInput, selectedAnswer,
                   elapsedTime, isTimeout, timerRef, puzzle, hintsUsed, options>>

LP_handleNext ==
    /\ currentMode = LETTER_PUZZLE
    /\ showAnswer
    /\ results' = results
    /\ handleNext(LETTER_PUZZLE)

LP_handleSkip ==
    /\ currentMode = LETTER_PUZZLE
    /\ ~showAnswer
    /\ LearnerMayMiss
    /\ results' = withResult(results, [word |-> currentWord.word,
                                   correct |-> FALSE,
                                   userAnswer |-> skippedAnswer(userInput),
                                   hintsUsed |-> hintsUsed])
    /\ handleNext(LETTER_PUZZLE)

(***************************************************************************)
(* Specifications                                                          *)
(***************************************************************************)
\* texts the learner types in Spec: nothing, the current word, a wrong word
Typed == {EMPTY, currentWord.word, WRONG}

\* Spec: one session of any mode over the first n words of the dataset,
\* n up to MaxWords, from the mount of its controller to its completion;
\* the learner answers within MaxTick seconds
Init ==
    \E mode \in QuizModes, n \in 1..MaxWords :
        SessionStarted(mode, SubSeq(k8Words, 1, n), << >>)

Next ==
    \/ \E value \in Typed : LS_onChange(value)
    \/ LS_tick(MaxTick)
    \/ LS_handleSubmit
    \/ LS_handleNext
    \/ LS_handleSkip
    \/ \E option \in BagToSet(options) : FB_handleSelectOption(option)
    \/ FB_handleSubmit
    \/ FB_handleNext
    \/ FB_handleSkip
    \/ \E value \in Typed : LP_onChange(value)
    \/ LP_handleHint
    \/ LP_handleSubmit
    \/ LP_handleNext
    \/ LP_handleSkip

Spec == Init /\ [][Next]_vars

\* the learner keeps answering or skipping and advancing: an answer is given
\* to a word that waits for one, and a submit that is possible again and
\* again is made
GivesAnswer ==
    \/ LS_onChange(currentWord.word)
    \/ FB_handleSelectOption(currentWord.word)
    \/ LP_onChange(currentWord.word)

Submits == LS_handleSubmit \/ FB_handleSubmit \/ LP_handleSubmit

\* handleSkip can be called for a word not yet answered, handleNext for an
\* answered one; they are the steps that leave the word
CanLeaveWord == currentMode \in QuizModes /\ (showAnswer \/ LearnerMayMiss)

LeavesWord ==
    /\ currentMode \in QuizModes
    /\ currentIndex' # currentIndex \/ currentMode' = RESULTS

\* strong fairness of leaving the word, with its enabling condition
\* written out
KeepsLeaving == <>[](~CanLeaveWord) \/ []<><<LeavesWord>>_vars

\* SpecKeepsGoing: one session of any mode over the first one or two words of
\* the dataset, with such a learner
InitShort ==
    \E mode \in QuizModes, n \in {1, 2} :
        SessionStarted(mode, SubSeq(k8Words, 1, n), << >>)

SpecKeepsGoing ==
    /\ InitShort /\ [][Next]_vars
    /\ WF_vars(GivesAnswer) /\ SF_vars(Submits) /\ KeepsLeaving

\* texts the learner types in SpecDetail: also white space only, and the
\* current word in capitals between spaces
TypedDetail ==
    {EMPTY, BLANK, currentWord.word, BLANK \o toUpperCase(currentWord.word) \o BLANK,
     WRONG}

\* words of the dataset with two masked letters and with one
detailWords == <<[word |-> book], [word |-> cat], [word |-> sun]>>

\* SpecDetail: a short session of any mode in which the learner may let the
\* 30 seconds pass
InitDetail ==
    \E mode \in QuizModes, n \in 1..MaxDetailWords :
        SessionStarted(mode, SubSeq(detailWords, 1, n), << >>)

NextDetail ==
    \/ \E value \in TypedDetail : LS_onChange(value)
    \/ LS_tick(TIMEOUT_SECONDS + MaxOvertime)
    \/ LS_handleSubmit
    \/ LS_handleNext
    \/ LS_handleSkip
    \/ \E option \in BagToSet(options) : FB_handleSelectOption(option)
    \/ FB_handleSubmit
    \/ FB_handleNext
    \/ FB_handleSkip
    \/ \E value \in TypedDetail : LP_onChange(value)
    \/ LP_handleHint
    \/ LP_handleSubmit
    \/ LP_handleNext
    \/ LP_handleSkip

SpecDetail == InitDetail /\ [][NextDetail]_vars

(***************************************************************************)
(* SpecTimer: a listen-spell session over two words in which the learner   *)
(* may let the 30 seconds pass on every word                               *)
(***************************************************************************)
InitTimer == SessionStarted(LISTEN_SPELL, SubSeq(k8Words, 1, 2), << >>)

NextTimer ==
    \/ \E value \in Typed : LS_onChange(value)
    \/ LS_tick(TIMEOUT_SECONDS + MaxOvertime)
    \/ LS_handleSubmit
    \/ LS_handleNext
    \/ LS_handleSkip

SpecTimer == InitTimer /\ [][NextTimer]_vars

\* a history entry of an earlier session
priorEntry ==
    [mode |-> "FillBlank", wordCount |-> 3, correct |-> 2, incorrect |-> 1,
     accuracy |-> 67, withHints |-> 0, totalHintsUsed |-> 0, timeoutCount |-> 0]

\* SpecFive: one session of any mode over five words, on an empty history or
\* on a history of one earlier session
InitFive ==
    \E mode \in QuizModes, stored \in {<< >>, <<JSONstringify(<<priorEntry>>)>>} :
        SessionStarted(mode, SubSeq(k8Words, 1, 5), stored)

SpecFive == InitFive /\ [][Next]_vars

(***************************************************************************)
(* SpecStats: App receives the results of a session                        *)
(***************************************************************************)
\* the AnswerResults a controller of the mode builds
ResultsOf(mode) ==
    IF mode = FILL_BLANK
    THEN {[word |-> cat, correct |-> c, userAnswer |-> IF c THEN cat ELSE WRONG] :
             c \in BOOLEAN}
    ELSE IF mode = LISTEN_SPELL
    THEN {[word |-> cat, correct |-> c, userAnswer |-> IF c THEN cat ELSE WRONG,
           timeout |-> t, hintsUsed |-> 0] : c \in BOOLEAN, t \in BOOLEAN}
    ELSE {[word |-> cat, correct |-> c, userAnswer |-> IF c THEN cat ELSE WRONG,
           hintsUsed |-> h] : c \in BOOLEAN, h \in 0..MaxHints}

\* a session of n answers without hints, the first c of them correct, followed
\* by h correct answers with one hint each
LongSession(c, n, h) ==
    [i \in 1..(n + h) |->
        [word |-> cat, correct |-> (i <= c \/ i > n),
         userAnswer |-> IF i <= c \/ i > n THEN cat ELSE WRONG,
         hintsUsed |-> IF i > n THEN 1 ELSE 0]]

\* the results lists handed to onComplete in SpecStats: every list of up to
\* MaxResults results of the mode, and for letter-puzzle the long sessions
StatsInputs(mode) ==
    UNION {[1..k -> ResultsOf(mode)] : k \in 0..MaxResults}
    \cup (IF mode = LETTER_PUZZLE
          THEN UNION {{LongSession(c, n, h) : c \in 0..n, h \in 0..1} :
                         n \in 1..MaxSession}
          ELSE {})

\* the controller calls its onComplete prop with gameResults and is unmounted
onComplete(gameResults) ==
    /\ currentMode \in QuizModes
    /\ handleComplete(gameResults)
    /\ timerRef' = FALSE
    /\ UNCHANGED <<words, currentIndex, userInput, selectedAnswer, showAnswer,
                   isCorrect, results, elapsedTime, isTimeout, puzzle, hintsUsed,
                   options>>

\* mutant of backToMenu: leaving saves an entry
backToMenuSaving ==
    /\ currentMode # MENU
    /\ currentMode' = MENU
    /\ appResults' = << >>
    /\ timerRef' = FALSE
    /\ storage' = saveToHistory(storage, priorEntry)
    /\ UNCHANGED <<currentModeName, selectedWords, words, currentIndex,
                   userInput, selectedAnswer, showAnswer, isCorrect, results,
                   elapsedTime, isTimeout, puzzle, hintsUsed, options, speechVars>>

\* App.backToMenu, from the results page or from the header button of a session
backToMenu ==
    /\ currentMode # MENU
    /\ currentMode' = MENU
    /\ appResults' = << >>
    /\ timerRef' = FALSE
    /\ UNCHANGED <<currentModeName, selectedWords, storage, words, currentIndex,
                   userInput, selectedAnswer, showAnswer, isCorrect, results,
                   elapsedTime, isTimeout, puzzle, hintsUsed, options, speechVars>>

InitStats ==
    \E mode \in QuizModes : SessionStarted(mode, SubSeq(k8Words, 1, 1), << >>)

NextStats ==
    \/ \E gameResults \in StatsInputs(currentMode) : onComplete(gameResults)
    \/ backToMenu

SpecStats == InitStats /\ [][NextStats]_vars

(***************************************************************************)
(* SpecHistory: the App over several sessions and the history store.  The  *)
(* controllers are left aside: a session ends with onComplete called on    *)
(* one of HistoryInputs.                                                   *)
(***************************************************************************)
\* what localStorage holds under HISTORY_KEY when the page is loaded
StoredAtLoad ==
    {<< >>, <<JSONstringify(<< >>)>>, <<JSONstringify(<<priorEntry>>)>>,
     <<NullText>>, <<ObjectText>>, <<BrokenText>>, <<EmptyText>>}

\* App renders: it reads history.length of the value getHistory() returned,
\* which raises a TypeError on null (on an object it is undefined)
AppRenders == getHistory(storage).kind # "null"

\* every list selectRandomWords(words, count) can return
selectRandomWords(wordsData, count) ==
    {slice(r.shuffled, count) : r \in shuffleArray(wordsData)}

\* results lists handed over in SpecHistory
HistoryInputs ==
    {<<[word |-> cat, correct |-> TRUE, userAnswer |-> cat]>>,
     <<[word |-> cat, correct |-> FALSE, userAnswer |-> WRONG],
       [word |-> cat, correct |-> TRUE, userAnswer |-> cat]>>}

\* the page after load: App at the menu, no controller mounted
AppLoaded(stored) ==
    /\ currentMode = MENU
    /\ currentModeName = ""
    /\ selectedWords = << >>
    /\ appResults = << >>
    /\ storage = stored
    /\ Mounted(MENU, << >>, EmptyBag)
    /\ SpeechAside

\* App.startMode(mode, count) from the menu
startMode(mode, count) ==
    /\ AppRenders
    /\ currentMode = MENU
    /\ selectedWords' \in selectRandomWords(SubSeq(k8Words, 1, 2), count)
    /\ currentMode' = mode
    /\ currentModeName' = MODE_NAMES(mode)
    /\ appResults' = << >>
    /\ UNCHANGED <<storage, ctlVars, speechVars>>

\* HistoryModal.handleClearHistory, confirmed; its button is rendered when
\* history.length > 0.  The reload resets App.
handleClearHistory ==
    /\ AppRenders
    /\ getHistory(storage).kind = "array"
    /\ Len(getHistory(storage).items) > 0
    /\ storage' = clearHistory(storage)
    /\ currentMode' = MENU
    /\ currentModeName' = ""
    /\ selectedWords' = << >>
    /\ appResults' = << >>
    /\ UNCHANGED <<ctlVars, speechVars>>

InitHistory == \E stored \in StoredAtLoad : AppLoaded(stored)

NextHistory ==
    \/ \E mode \in QuizModes : startMode(mode, 1)
    \/ \E gameResults \in HistoryInputs :
           /\ Len(getHistory(storage).items) < MaxHistory
           /\ onComplete(gameResults)
    \/ backToMenu
    \/ handleClearHistory

SpecHistory == InitHistory /\ [][NextHistory]_vars

(***************************************************************************)
(* Speech service (hooks/useSpeech, dictionary audio with synthesis        *)
(* fallback).  The browser has window.speechSynthesis.                     *)
(*                                                                         *)
(* audio is the Audio element: src, handlers (the call whose               *)
(* oncanplaythrough and onerror closures are installed, 0 for none), load  *)
(* ("empty", "loading", "ready", "failed") and playing.  synth is the      *)
(* synthesis queue: phase "idle", "pending" (utterance queued) or          *)
(* "speaking", with the call, text, lang and rate of the utterance, and    *)
(* paused, the paused state of speechSynthesis.  audio.playing is the      *)
(* negation of the element's paused attribute.                             *)
(* calls holds one record per speak or stop call: its arguments, the       *)
(* audioSource and isSupported of the closures it runs with, state         *)
(* "loading" while it awaits playDictionaryAudio and "resolved" once the   *)
(* promise of speak is resolved, timer (its 3 s timeout is pending) and    *)
(* outcome "dictionary", "fallback" (after a failed dictionary attempt) or *)
(* "direct" (no dictionary attempt).                                       *)
(***************************************************************************)
\* /^[a-zA-Z]+$/.test(text.trim())
IsLetter(c) == LowerChar(c) # UpperChar(c)

isSingleWord(text) ==
    LET t == trim(text) IN t # EMPTY /\ \A i \in 1..Len(t) : IsLetter(t[i])

\* a parameter left out takes its default
DefaultTo(arg, default) == IF arg = "undefined" THEN default ELSE arg

\* the arguments of the speak calls made in SpecSpeech
SpeakRequests ==
    {[text |-> cat, lang |-> "undefined", rate |-> "undefined"],
     [text |-> BLANK \o dog, lang |-> "en-GB", rate |-> "0.7"],
     [text |-> <<"a", " ">> \o cat, lang |-> "en-US", rate |-> "0.7"]}

StopCall ==
    [op |-> "stop", text |-> EMPTY, lang |-> "", rate |-> "", source |-> "",
     supported |-> FALSE, state |-> "resolved", timer |-> FALSE, outcome |-> "none"]

\* setIsSpeaking(value): a state update of an unmounted component is dropped
setIsSpeaking(value) == isSpeaking' = IF hook = "unmounted" THEN isSpeaking ELSE value

\* mutant of stoppedAudio: the element is not paused
stoppedAudioKeeps(ref) == audio

\* the element and the queue after stop() ran with audioRef.current = ref
stoppedAudio(ref) == IF ref = "element" THEN [audio EXCEPT !.playing = FALSE] ELSE audio

\* window.speechSynthesis.cancel(): the queue is emptied, its paused state is
\* kept
cancelled(queue) == [IdleSynth EXCEPT !.paused = queue.paused]

\* the queue after speakWithWebSpeech(text, lang, rate) of call id ran on
\* queue, in a closure where isSupported = supported
speakWithWebSpeech(queue, id, text, lang, rate, supported) ==
    IF ~supported THEN queue
    ELSE [phase |-> "pending", call |-> id, text |-> text, lang |-> lang,
          rate |-> rate, paused |-> queue.paused]

\* mutant of fallback: the synthesis is used under every preference
fallbackAlways(queue, id, call) ==
    speakWithWebSpeech(queue, id, call.text, call.lang, call.rate, call.supported)

\* the queue after the part of speak that follows the dictionary attempt
fallback(queue, id, call) ==
    IF call.source # "dictionary"
    THEN speakWithWebSpeech(queue, id, call.text, call.lang, call.rate, call.supported)
    ELSE queue

\* speak(text, lang, rate) in a render where isSupported and audioSource are
\* the current values, with audioRef.current = ref when it runs
speakFrom(request, ref) ==
    LET id == Len(calls) + 1
        call == [op |-> "speak", text |-> request.text,
                 lang |-> DefaultTo(request.lang, "en-US"),
                 rate |-> DefaultTo(request.rate, "0.8"),
                 source |-> audioSource, supported |-> isSupported,
                 state |-> "resolved", timer |-> FALSE, outcome |-> "direct"]
        tryDictionary == audioSource # "webspeech" /\ isSingleWord(request.text)
    IN  /\ setIsSpeaking(FALSE)
        /\ IF tryDictionary /\ ref = "element"
           THEN \* playDictionaryAudio: handlers, src, timeout, load()
                /\ audio' = [src |-> trim(request.text), handlers |-> id,
                             load |-> "loading", playing |-> FALSE]
                /\ synth' = cancelled(synth)
                /\ calls' = Append(calls, [call EXCEPT !.state = "loading",
                                                       !.timer = TRUE,
                                                       !.outcome = "none"])
           ELSE \* no attempt, or the promise is rejected at once
                /\ audio' = stoppedAudio(ref)
                /\ synth' = fallback(cancelled(synth), id, call)
                /\ calls' = Append(calls,
                               [call EXCEPT !.outcome = IF tryDictionary THEN "fallback"
                                                        ELSE "direct"])

\* the first commit of a component that plays a word when it appears
\* (ListenSpell): the hook's effect, then speak of the first render
mountAndPlay(request) ==
    /\ hook = "rendered"
    /\ hook' = "mounted"
    /\ isSupported' = TRUE
    /\ audioRef' = "element"
    /\ speakFrom(request, "element")
    /\ UNCHANGED <<audioSource, appVars, ctlVars>>

\* the first commit of a component that plays on request only (LetterPuzzle)
mount ==
    /\ hook = "rendered"
    /\ hook' = "mounted"
    /\ isSupported' = TRUE
    /\ audioRef' = "element"
    /\ UNCHANGED <<isSpeaking, audioSource, audio, synth, calls, appVars, ctlVars>>

\* the effect's cleanup
unmount ==
    /\ hook = "mounted"
    /\ hook' = "unmounted"
    /\ audio' = stoppedAudio(audioRef)
    /\ audioRef' = "null"
    /\ UNCHANGED <<isSpeaking, isSupported, audioSource, synth, calls, appVars, ctlVars>>

speak(request) ==
    /\ hook = "mounted"
    /\ Len(calls) < MaxCalls
    /\ speakFrom(request, audioRef)
    /\ UNCHANGED <<hook, isSupported, audioSource, audioRef, appVars, ctlVars>>

stop ==
    /\ hook = "mounted"
    /\ Len(calls) < MaxCalls
    /\ audio' = stoppedAudio(audioRef)
    /\ synth' = cancelled(synth)
    /\ setIsSpeaking(FALSE)
    /\ calls' = Append(calls, StopCall)
    /\ UNCHANGED <<hook, isSupported, audioSource, audioRef, appVars, ctlVars>>

setAudioSource(source) ==
    /\ hook = "mounted"
    /\ source # audioSource
    /\ audioSource' = source
    /\ UNCHANGED <<hook, isSpeaking, isSupported, audioRef, audio, synth, calls,
                   appVars, ctlVars>>

\* pause(): the element when it is not paused, else the synthesis when
\* isSpeaking
pause ==
    /\ hook = "mounted"
    /\ IF audioRef = "element" /\ audio.playing
       THEN audio' = [audio EXCEPT !.playing = FALSE] /\ synth' = synth
       ELSE IF isSupported /\ isSpeaking
       THEN audio' = audio /\ synth' = [synth EXCEPT !.paused = TRUE]
       ELSE audio' = audio /\ synth' = synth
    /\ UNCHANGED <<hook, isSpeaking, isSupported, audioSource, audioRef, calls,
                   appVars, ctlVars>>

\* resume(): audioRef.current.play() when the element is paused and has a src,
\* else speechSynthesis.resume(); the promise of play() is dropped, started
\* tells whether the browser lets the playback start
resume(started) ==
    /\ hook = "mounted"
    /\ IF audioRef = "element" /\ ~audio.playing /\ audio.src # EMPTY
       THEN /\ audio' = IF started /\ audio.load # "failed"
                        THEN [audio EXCEPT !.playing = TRUE] ELSE audio
            /\ synth' = synth
       ELSE IF isSupported
       THEN started /\ audio' = audio /\ synth' = [synth EXCEPT !.paused = FALSE]
       ELSE started /\ audio' = audio /\ synth' = synth
    /\ UNCHANGED <<hook, isSpeaking, isSupported, audioSource, audioRef, calls,
                   appVars, ctlVars>>

\* the promise of playDictionaryAudio of call id is rejected: when speak still
\* awaits it, the catch runs and speak goes on to the fallback
rejected(id, timerLeft) ==
    IF calls[id].state = "loading"
    THEN /\ synth' = fallback(synth, id, calls[id])
         /\ calls' = [calls EXCEPT ![id].state = "resolved", ![id].timer = timerLeft,
                                   ![id].outcome = "fallback"]
    ELSE /\ synth' = synth
         /\ calls' = [calls EXCEPT ![id].timer = timerLeft]

\* the element fires canplaythrough: the handler clears the timeout of its
\* call, sets isSpeaking and calls audioRef.current.play(), whose promise is
\* fulfilled (started) or rejected
canPlayThrough(started) ==
    LET id == audio.handlers
    IN  /\ audio.load = "loading"
        /\ setIsSpeaking(TRUE)
        /\ IF audioRef = "null"
           THEN \* play of null raises a TypeError in the handler: the promise
                \* of playDictionaryAudio is never settled
                /\ started
                /\ audio' = [audio EXCEPT !.load = "ready"]
                /\ synth' = synth
                /\ calls' = [calls EXCEPT ![id].timer = FALSE]
           ELSE IF started
           THEN /\ audio' = [audio EXCEPT !.load = "ready", !.playing = TRUE]
                /\ synth' = synth
                /\ calls' = IF calls[id].state = "loading"
                            THEN [calls EXCEPT ![id].state = "resolved",
                                               ![id].timer = FALSE,
                                               ![id].outcome = "dictionary"]
                            ELSE [calls EXCEPT ![id].timer = FALSE]
           ELSE /\ audio' = [audio EXCEPT !.load = "ready", !.playing = FALSE]
                /\ rejected(id, FALSE)
        /\ UNCHANGED <<hook, isSupported, audioSource, audioRef, appVars, ctlVars>>

\* the element fires error: onerror rejects, the listener clears isSpeaking;
\* the timeout of the call is left pending
audioError ==
    /\ audio.load = "loading"
    /\ audio' = [audio EXCEPT !.load = "failed", !.playing = FALSE]
    /\ setIsSpeaking(FALSE)
    /\ rejected(audio.handlers, calls[audio.handlers].timer)
    /\ UNCHANGED <<hook, isSupported, audioSource, audioRef, appVars, ctlVars>>

\* the element fires ended
audioEnded ==
    /\ audio.playing /\ audio.load = "ready"
    /\ audio' = [audio EXCEPT !.playing = FALSE]
    /\ setIsSpeaking(FALSE)
    /\ UNCHANGED <<hook, isSupported, audioSource, audioRef, synth, calls, appVars,
                   ctlVars>>

\* mutant of timeout: the timer is cleared without rejecting
timeoutDropped(id) ==
    /\ id \in 1..Len(calls)
    /\ calls[id].timer
    /\ \A earlier \in 1..(id - 1) : ~calls[earlier].timer
    /\ calls' = [calls EXCEPT ![id].timer = FALSE]
    /\ UNCHANGED <<hook, isSpeaking, isSupported, audioSource, audioRef, audio, synth,
                   appVars, ctlVars>>

\* the 3 s timeout of call id fires; timeouts fire in the order they were set
timeout(id) ==
    /\ id \in 1..Len(calls)
    /\ calls[id].timer
    /\ \A earlier \in 1..(id - 1) : ~calls[earlier].timer
    /\ rejected(id, FALSE)
    /\ UNCHANGED <<hook, isSpeaking, isSupported, audioSource, audioRef, audio,
                   appVars, ctlVars>>

\* the utterance fires start, end, error
utteranceStart ==
    /\ synth.phase = "pending" /\ ~synth.paused
    /\ synth' = [synth EXCEPT !.phase = "speaking"]
    /\ setIsSpeaking(TRUE)
    /\ UNCHANGED <<hook, isSupported, audioSource, audioRef, audio, calls, appVars,
                   ctlVars>>

utteranceEnd ==
    /\ synth.phase = "speaking" /\ ~synth.paused
    /\ synth' = IdleSynth
    /\ setIsSpeaking(FALSE)
    /\ UNCHANGED <<hook, isSupported, audioSource, audioRef, audio, calls, appVars,
                   ctlVars>>

utteranceError ==
    /\ synth.phase \in {"pending", "speaking"}
    /\ synth' = cancelled(synth)
    /\ setIsSpeaking(FALSE)
    /\ UNCHANGED <<hook, isSupported, audioSource, audioRef, audio, calls, appVars,
                   ctlVars>>

\* the hook after the first render of its component, in a listen-spell session
InitSpeech ==
    /\ hook = "rendered"
    /\ isSpeaking = FALSE
    /\ isSupported = FALSE
    /\ audioSource = "hybrid"
    /\ audioRef = "null"
    /\ audio = IdleAudio
    /\ synth = IdleSynth
    /\ calls = << >>
    /\ currentMode = LISTEN_SPELL
    /\ currentModeName = MODE_NAMES(LISTEN_SPELL)
    /\ selectedWords = SubSeq(k8Words, 1, 1)
    /\ appResults = << >>
    /\ storage = << >>
    /\ Mounted(LISTEN_SPELL, SubSeq(k8Words, 1, 1), EmptyBag)

NextSpeech ==
    \/ \E request \in SpeakRequests : mountAndPlay(request)
    \/ mount
    \/ unmount
    \/ \E request \in SpeakRequests : speak(request)
    \/ stop
    \/ pause
    \/ \E started \in BOOLEAN : resume(started)
    \/ \E source \in {"hybrid", "dictionary", "webspeech"} : setAudioSource(source)
    \/ \E started \in BOOLEAN : canPlayThrough(started)
    \/ audioError
    \/ audioEnded
    \/ \E id \in 1..MaxCalls : timeout(id)
    \/ utteranceStart
    \/ utteranceEnd
    \/ utteranceError

SpecSpeech == InitSpeech /\ [][NextSpeech]_vars

\* the timeouts set are served: a pending 3 s timeout fires
SpecSpeechFair == SpecSpeech /\ WF_vars(\E id \in 1..MaxCalls : timeout(id))

(***************************************************************************)
(* Steps and positions the properties speak of                             *)
(***************************************************************************)
InSession == currentMode \in QuizModes

\* the step leaves the current word: to the next word or to completion
Advances == InSession /\ (currentIndex' # currentIndex \/ currentMode' = RESULTS)

\* the step records an attempt
Records == InSession /\ Len(results') = Len(results) + 1

\* the step is a skip: it records and leaves the word at once
Skips == Records /\ Advances

\* the attempt on the word the step leaves was incorrect or skipped
MissedHere == ~results'[currentIndex + 1].correct

\* the copies (retryCount = 1) of word w in ws
CopiesOf(ws, w) == {p \in 1..Len(ws) : ws[p].word = w /\ ws[p].retryCount = 1}

\* ws with e put at 0-based index pos
WithInserted(ws, pos, e) ==
    [k \in 1..Len(ws) + 1 |->
        IF k <= pos THEN ws[k] ELSE IF k = pos + 1 THEN e ELSE ws[k - 1]]

RetryCopy(w) == [word |-> w.word, retryCount |-> 1]

\* words that stood after the current word when the step began
Remaining == Len(words) - (currentIndex + 1)

\* words standing between the current word and its copy after the step
Between == (CHOOSE p \in CopiesOf(words', currentWord.word) : TRUE) - (currentIndex + 1) - 1

Inserts == Advances /\ Len(words') = Len(words) + 1

(***************************************************************************)
(* C1: advancing past the last word hands the completion callback the full *)
(* results sequence, one AnswerResult for every attempt of the session     *)
(* (every word presented, skips and retried repeats included), whether the *)
(* last word was ended by submit-then-advance or by skip.                  *)
(* Violated: handleSkip passes the results of the render before the skip.  *)
(***************************************************************************)
C1_CompletionCarriesEveryAttempt ==
    Phase = "Complete" =>
        /\ Len(appResults) = currentIndex + 1
        /\ \A k \in 1..Len(appResults) : appResults[k].word = words[k].word
        /\ appResults = results
        /\ Len(getHistory(storage).items) = 1

(***************************************************************************)
(* C2: leaving a word that was missed (incorrect or skipped) and has       *)
(* retryCount 0 inserts a copy with retryCount 1 at index                  *)
(* min(currentIndex + 3, length); no other step changes the working        *)
(* sequence: a missed copy and a correctly answered word insert nothing,   *)
(* and no word has two copies.                                             *)
(***************************************************************************)
C2_RetryInsertion ==
    [][/\ Advances =>
            IF MissedHere /\ currentWord.retryCount = 0
            THEN words' = WithInserted(words,
                              IF currentIndex + 3 < Len(words)
                              THEN currentIndex + 3 ELSE Len(words),
                              RetryCopy(currentWord))
            ELSE words' = words
       /\ ~Advances => words' = words
       /\ \A p \in 1..Len(words') : Cardinality(CopiesOf(words', words'[p].word)) <= 1
      ]_vars

\* over [A,B,C,D] the copy of A stands at index 3, was missed again, and the
\* session went on without a second copy
C2_Witness ==
    /\ Len(words) = 5
    /\ words[4] = RetryCopy(words[1])
    /\ words[5].retryCount = 0
    /\ currentIndex = 4
    /\ ~results[4].correct

(***************************************************************************)
(* C3: every word whose first attempt was incorrect or skipped has been    *)
(* presented a second time when the completion callback is invoked, the    *)
(* word in last position included.                                         *)
(* Violated: handleNext tests currentIndex against the length before the   *)
(* insertion, so a miss on the last word completes the session.            *)
(***************************************************************************)
C3_MissedWordRetriedBeforeCompletion ==
    Phase = "Complete" =>
        \A k \in 1..Len(results) :
            (~results[k].correct /\ words[k].retryCount = 0) =>
                \E m \in (k + 1)..Len(results) : words[m] = RetryCopy(words[k])

(***************************************************************************)
(* C4 as stated: a missed word comes back only after 3 further words have  *)
(* been attempted, unless fewer than 3 words remained at the miss.         *)
(***************************************************************************)
C4_ThreeWordsBetween ==
    [][Inserts => (Between >= 3 \/ Remaining < 3)]_vars

(***************************************************************************)
(* C4 as amended: the copy of a missed word is placed after min(2, r)      *)
(* further words, r the number of words that remained after the missed     *)
(* word; words are presented one index at a time and no step changes the   *)
(* working sequence up to a copy, so the missed word is not presented      *)
(* again before those min(2, r) words have been attempted.                 *)
(***************************************************************************)
C4_TwoWordsBetween ==
    [][/\ Inserts => Between = (IF Remaining < 2 THEN Remaining ELSE 2)
       /\ InSession => currentIndex' \in {currentIndex, currentIndex + 1}
       /\ Advances => Len(results') = currentIndex + 1
       /\ \A p \in 1..Len(words) :
              words[p].retryCount = 1 => SubSeq(words', 1, p) = SubSeq(words, 1, p)
      ]_vars

\* the copy of the first word is presented after the second and the third
\* word were attempted, with a fifth word still to come
C4_Witness ==
    /\ Phase = "Presenting"
    /\ currentIndex = 3
    /\ words[4] = RetryCopy(words[1])
    /\ Len(results) = 3
    /\ Len(words) = 5

(***************************************************************************)
(* C5 as stated: a skip records exactly one AnswerResult for the current   *)
(* word, with correct = false and the placeholder '(skipped)' as           *)
(* userAnswer whatever the input field holds; in listen-spell its timeout  *)
(* tag is true only if the 30 seconds had passed.                          *)
(***************************************************************************)
C5_SkipRecordsPlaceholder ==
    [][Skips =>
          LET r == results'[Len(results')]
          IN  /\ SubSeq(results', 1, Len(results)) = results
              /\ r.word = currentWord.word
              /\ r.correct = FALSE
              /\ r.userAnswer = SKIPPED
              /\ currentMode = LISTEN_SPELL =>
                     r.timeout = (elapsedTime >= TIMEOUT_SECONDS)
      ]_vars

(***************************************************************************)
(* C5 as amended: a skip records exactly one AnswerResult for the current  *)
(* word with correct = false; in listen-spell and letter-puzzle its        *)
(* userAnswer is the text of the input field when that is not empty and    *)
(* the placeholder '(skipped)' when it is empty, in fill-blank always the  *)
(* placeholder; in listen-spell its timeout tag is true only if the 30     *)
(* seconds had passed.                                                     *)
(***************************************************************************)
C5_SkipRecordsInputOrPlaceholder ==
    [][Skips =>
          LET r == results'[Len(results')]
          IN  /\ SubSeq(results', 1, Len(results)) = results
              /\ r.word = currentWord.word
              /\ r.correct = FALSE
              /\ r.userAnswer = (IF currentMode = FILL_BLANK \/ userInput = << >>
                                 THEN SKIPPED ELSE userInput)
              /\ currentMode = LISTEN_SPELL =>
                     r.timeout = (elapsedTime >= TIMEOUT_SECONDS)
      ]_vars

\* a listen-spell word skipped after the 30 seconds with a text typed
C5_Witness ==
    /\ currentMode = RESULTS
    /\ currentModeName = MODE_NAMES(LISTEN_SPELL)
    /\ ~showAnswer
    /\ results[Len(results)].userAnswer = WRONG
    /\ ~results[Len(results)].correct
    /\ results[Len(results)].timeout

(***************************************************************************)
(* C6 as stated: every attempt goes Presenting(i) -> Answered(i) ->        *)
(* Presenting(i+1) or Complete: a submit and a skip both enter Answered    *)
(* for the current word, and a new Presenting phase or Complete starts     *)
(* only through an advance out of Answered.                                *)
(***************************************************************************)
C6_EveryAttemptEntersAnswered ==
    [][/\ Records => (Phase' = "Answered" /\ currentIndex' = currentIndex)
       /\ Advances => Phase = "Answered"
      ]_vars

(***************************************************************************)
(* C6 as amended: a submit enters Answered for the current word; a skip    *)
(* records its result and advances in the same step, from Presenting(i)    *)
(* to Presenting(i+1) or Complete, without entering Answered.  A new       *)
(* Presenting phase or Complete starts only through an advance, out of     *)
(* Answered of the previous word or as part of a skip of it, and the       *)
(* index moves one word at a time.                                         *)
(***************************************************************************)
C6_SubmitEntersAnsweredSkipAdvances ==
    [][/\ (Records /\ ~Advances) =>
              (Phase = "Presenting" /\ Phase' = "Answered" /\ currentIndex' = currentIndex)
       /\ Skips => Phase = "Presenting"
       /\ Advances =>
              /\ Phase = "Answered" \/ Skips
              /\ \/ Phase' = "Presenting" /\ currentIndex' = currentIndex + 1
                 \/ Phase' = "Complete" /\ currentIndex' = currentIndex
       /\ (InSession /\ ~Advances /\ ~Records) =>
              (Phase' = Phase /\ currentIndex' = currentIndex)
       /\ Phase = "Answered" => ~Records
      ]_vars

\* the second word is being presented after a skip of the first
C6_Witness ==
    /\ Phase = "Presenting"
    /\ currentIndex = 1
    /\ results[1].userAnswer = SKIPPED
    /\ ~results[1].correct

(***************************************************************************)
(* C7: the results hold exactly one entry per word attempted so far, in    *)
(* attempt order: length = currentIndex while Presenting, currentIndex + 1 *)
(* while Answered, and entry k names the word at index k of the working    *)
(* sequence.                                                               *)
(***************************************************************************)
C7_OneResultPerAttempt ==
    /\ Phase = "Presenting" => Len(results) = currentIndex
    /\ Phase = "Answered" => Len(results) = currentIndex + 1
    /\ InSession => \A k \in 1..Len(results) : results[k].word = words[k].word

\* the retried copy of the first word has been answered after three attempts
C7_Witness ==
    /\ Phase = "Answered"
    /\ currentIndex = 3
    /\ words[4] = RetryCopy(words[1])
    /\ words[2] # words[1]

(***************************************************************************)
(* C8: a tick of the listen-spell timer changes only the elapsed time and, *)
(* from 30 seconds on, the timeout flag: it appends no result and leaves   *)
(* currentIndex, the working sequence, the input and the Presenting phase  *)
(* unchanged.                                                              *)
(***************************************************************************)
C8_TimerIsAdvisory ==
    [][(InSession /\ elapsedTime' = elapsedTime + 1) =>
          /\ currentMode = LISTEN_SPELL
          /\ Phase = "Presenting" /\ Phase' = "Presenting"
          /\ isTimeout' = (isTimeout \/ elapsedTime' >= TIMEOUT_SECONDS)
          /\ UNCHANGED <<results, currentIndex, words, userInput, showAnswer,
                         isCorrect, appVars>>
      ]_vars

\* the 30 seconds have passed and the word is still presented, unanswered
C8_Witness ==
    /\ currentMode = LISTEN_SPELL
    /\ Phase = "Presenting"
    /\ isTimeout
    /\ elapsedTime > TIMEOUT_SECONDS
    /\ Len(results) = currentIndex

(***************************************************************************)
(* C9: a letter-puzzle hint adds one to the hint counter and replaces      *)
(* exactly one masked letter of the puzzle by the word's letter; it leaves *)
(* currentIndex, the phase, the working sequence and the results           *)
(* unchanged, and no hint is taken once the word is Answered.              *)
(***************************************************************************)
C9_HintRevealsOneLetter ==
    [][/\ (currentMode = LETTER_PUZZLE /\ hintsUsed' = hintsUsed + 1) =>
              /\ Phase = "Presenting"
              /\ \E i \in 1..Len(puzzle) :
                     /\ puzzle[i] = "_"
                     /\ puzzle' = [puzzle EXCEPT ![i] = currentWord.word[i]]
                     /\ puzzle'[i] # "_"
              /\ UNCHANGED <<currentIndex, showAnswer, words, results, isCorrect,
                             userInput, appVars>>
       /\ (Phase = "Answered" /\ ~Advances) =>
              (puzzle' = puzzle /\ hintsUsed' = hintsUsed)
      ]_vars

\* both masked letters of "book" were revealed by two hints
C9_Witness ==
    /\ currentMode = LETTER_PUZZLE
    /\ Phase = "Presenting"
    /\ currentWord.word = book
    /\ hintsUsed = 2
    /\ puzzle = book

(***************************************************************************)
(* C10: when a session of 5 words in which every word was answered         *)
(* correctly at its first attempt, without hints or timeout, completes,    *)
(* the stats of the results handed over are total 5, correct 5,            *)
(* incorrect 0, accuracy 100, and the history becomes one new entry with   *)
(* these values followed by the history as it was.                         *)
(***************************************************************************)
C10_FiveCorrectWords ==
    [][(/\ InSession /\ Phase' = "Complete"
        /\ Len(selectedWords) = 5
        /\ Len(results') = 5
        /\ \A k \in 1..5 : /\ results'[k].correct
                           /\ HintsOf(results'[k]) = 0
                           /\ ~TimeoutOf(results'[k])) =>
          LET stats == calculateStats(appResults')
              history == getHistory(storage').items
          IN  /\ stats.total = 5 /\ stats.correct = 5
              /\ stats.incorrect = 0 /\ stats.accuracy = 100
              /\ Len(history) = Len(getHistory(storage).items) + 1
              /\ Tail(history) = getHistory(storage).items
              /\ history[1].wordCount = 5 /\ history[1].correct = 5
              /\ history[1].incorrect = 0 /\ history[1].accuracy = 100
      ]_vars

\* such a session has completed on a history that held one entry
C10_Witness ==
    /\ Phase = "Complete"
    /\ Len(selectedWords) = 5
    /\ Len(results) = 5
    /\ \A k \in 1..5 : results[k].correct /\ HintsOf(results[k]) = 0
    /\ Len(getHistory(storage).items) = 2
    /\ getHistory(storage).items[2] = priorEntry

(***************************************************************************)
(* C11: for every results list r handed to App.handleComplete,            *)
(* calculateStats(r).total is the length of r and correct + incorrect is   *)
(* the length of r, both counts non-negative; the history entry saved      *)
(* carries these counts.                                                   *)
(***************************************************************************)
\* the quotient num / den rounded to the nearest integer, halves upwards
RoundHalfUp(num, den) == (2 * num + den) \div (2 * den)

C11_CountsAddUp ==
    Phase = "Complete" =>
        LET stats == calculateStats(appResults)
            entry == getHistory(storage).items[1]
        IN  /\ stats.total = Len(appResults)
            /\ stats.correct >= 0 /\ stats.incorrect >= 0
            /\ stats.correct + stats.incorrect = Len(appResults)
            /\ entry.wordCount = Len(appResults)
            /\ entry.correct = stats.correct /\ entry.incorrect = stats.incorrect
            /\ entry.correct + entry.incorrect = entry.wordCount

\* a session has completed with an answer right after a hint, an answer right
\* without one and a wrong answer
C11_Witness ==
    /\ Phase = "Complete"
    /\ Len(appResults) = 3
    /\ \E i, j, k \in 1..3 :
           /\ appResults[i].correct /\ HintsOf(appResults[i]) > 0
           /\ appResults[j].correct /\ HintsOf(appResults[j]) = 0
           /\ ~appResults[k].correct
    /\ getHistory(storage).items[1].correct = 2

(***************************************************************************)
(* C12: the accuracy saved for a session is the share of right answers     *)
(* among the answers given without a hint, in percent, rounded to the      *)
(* nearest integer: round(100 * correctWithoutHints / withoutHints), 0     *)
(* when no answer was given without a hint, always an integer in 0..100.   *)
(***************************************************************************)
C12_AccuracyIsRoundedShare ==
    Phase = "Complete" =>
        LET free == {i \in 1..Len(appResults) : HintsOf(appResults[i]) = 0}
            right == {i \in free : appResults[i].correct}
            accuracy == getHistory(storage).items[1].accuracy
        IN  /\ accuracy \in 0..100
            /\ accuracy = IF free = {} THEN 0
                          ELSE RoundHalfUp(100 * Cardinality(right), Cardinality(free))

(***************************************************************************)
(* C13: the persisted history is an append-only, newest-first log: after a *)
(* successful saveToHistory the history is the new entry followed by the   *)
(* previous history in its previous order; a save never modifies, reorders *)
(* or removes earlier entries, and entries disappear only through          *)
(* clearHistory.                                                           *)
(***************************************************************************)
C13_AppendOnlyNewestFirst ==
    [][LET before == getHistory(storage).items
           after == getHistory(storage').items
       IN  /\ (currentMode \in QuizModes /\ currentMode' = RESULTS
               /\ getHistory(storage).kind = "array") =>
                  /\ Len(after) = Len(before) + 1
                  /\ Tail(after) = before
                  /\ after[1].mode = currentModeName
                  /\ after[1].wordCount = Len(appResults')
           /\ (\E k \in 1..Len(before) :
                  k + (Len(after) - Len(before)) < 1
                  \/ after[k + (Len(after) - Len(before))] # before[k]) =>
                  handleClearHistory
      ]_vars

\* a session has been saved in front of two earlier entries of other sessions
C13_Witness ==
    /\ currentMode = RESULTS
    /\ Len(getHistory(storage).items) = 3
    /\ getHistory(storage).items[3] = priorEntry
    /\ getHistory(storage).items[1].wordCount = Len(appResults)
    /\ getHistory(storage).items[1] # getHistory(storage).items[2]

(***************************************************************************)
(* C14: after clearHistory() getHistory() returns the empty sequence       *)
(* whatever the history held before, and clearHistory on an already empty  *)
(* history changes nothing (clearHistory is idempotent).                   *)
(***************************************************************************)
C14_ClearEmptiesAndIsIdempotent ==
    [][/\ getHistory(clearHistory(storage)) = JSONstringify(<< >>)
       /\ clearHistory(clearHistory(storage)) = clearHistory(storage)
       /\ getHistory(storage) = JSONstringify(<< >>) =>
              getHistory(clearHistory(storage)) = getHistory(storage)
       /\ handleClearHistory =>
              /\ getHistory(storage') = JSONstringify(<< >>)
              /\ clearHistory(storage') = storage'
      ]_vars

\* a history of three entries is about to be cleared
C14_Witness ==
    /\ Len(getHistory(storage).items) = 3
    /\ ENABLED handleClearHistory
    /\ getHistory(clearHistory(storage)).items = << >>

(***************************************************************************)
(* C15: getHistory always returns a sequence: whenever the stored record   *)
(* is missing or is not a valid JSON-encoded sequence of entries           *)
(* (unparsable text, or JSON that is not a sequence, such as null or an    *)
(* object), it returns the empty sequence, so that a following             *)
(* saveToHistory stores exactly one entry and App's use of the history     *)
(* length does not fail.                                                   *)
(***************************************************************************)
C15_CorruptStoreReadsEmpty ==
    /\ [](/\ getHistory(storage).kind = "array"
          /\ (storage = << >> \/ storage[1].kind # "array") =>
                 getHistory(storage).items = << >>
          /\ AppRenders)
    /\ [][(currentMode \in QuizModes /\ currentMode' = RESULTS
           /\ (storage = << >> \/ storage[1].kind # "array")) =>
              /\ getHistory(storage').kind = "array"
              /\ Len(getHistory(storage').items) = 1
         ]_vars

(***************************************************************************)
(* SpecWords: from the menu the learner starts a letter-puzzle session of  *)
(* one or two words picked from a library whose words have 3 to 8 letters, *)
(* and plays it.                                                           *)
(***************************************************************************)
garden == <<"g", "a", "r", "d", "e", "n">>
elephant == <<"e", "l", "e", "p", "h", "a", "n", "t">>

\* WORD_LIBRARIES[currentLibrary] in SpecWords
puzzleLibrary == <<[word |-> cat], [word |-> garden], [word |-> elephant]>>

\* the first render of the controller of mode over initialWords and its
\* effects
mountController(mode, initialWords, opts) ==
    /\ words' = [i \in 1..Len(initialWords) |->
                    [word |-> initialWords[i].word, retryCount |-> 0]]
    /\ currentIndex' = 0
    /\ userInput' = EMPTY
    /\ selectedAnswer' = EMPTY
    /\ showAnswer' = FALSE
    /\ isCorrect' = "null"
    /\ results' = << >>
    /\ elapsedTime' = 0
    /\ isTimeout' = FALSE
    /\ timerRef' = (mode = LISTEN_SPELL /\ initialWords # << >>)
    /\ puzzle' = IF mode = LETTER_PUZZLE /\ initialWords # << >>
                 THEN generateLetterPuzzle(initialWords[1].word) ELSE EMPTY
    /\ hintsUsed' = 0
    /\ options' = opts

\* App.startMode(mode, count) from the menu over wordsData, and the mount of
\* the controller of the mode
startSession(mode, wordsData, count) ==
    /\ currentMode = MENU
    /\ selectedWords' \in selectRandomWords(wordsData, count)
    /\ currentMode' = mode
    /\ currentModeName' = MODE_NAMES(mode)
    /\ appResults' = << >>
    /\ \E opts \in (IF mode = FILL_BLANK /\ selectedWords' # << >>
                    THEN OptionLists([i \in 1..Len(selectedWords') |->
                                         [word |-> selectedWords'[i].word,
                                          retryCount |-> 0]], 0)
                    ELSE {EmptyBag}) :
           mountController(mode, selectedWords', opts)
    /\ UNCHANGED <<storage, speechVars>>

\* the learner types in the input field of the letter puzzle
LP_type == currentMode = LETTER_PUZZLE /\ \E value \in Typed : LP_onChange(value)

InitWords == AppLoaded(<< >>)

NextWords ==
    \/ \E count \in {1, 2} : startSession(LETTER_PUZZLE, puzzleLibrary, count)
    \/ LP_type
    \/ LP_handleHint
    \/ LP_handleSubmit
    \/ LP_handleNext
    \/ LP_handleSkip

SpecWords == InitWords /\ [][NextWords]_vars

(***************************************************************************)
(* SpecPick: the learner starts sessions of up to MaxPick words of any     *)
(* mode from the menu and goes back to the menu; the controllers are left  *)
(* as they are mounted.                                                    *)
(***************************************************************************)
\* WORD_LIBRARIES[currentLibrary] in SpecPick
pickLibrary == SubSeq(k8Words, 1, 4)

InitPick == AppLoaded(<< >>)

NextPick ==
    \/ \E mode \in QuizModes, count \in 1..MaxPick :
          startSession(mode, pickLibrary, count)
    \/ backToMenu

SpecPick == InitPick /\ [][NextPick]_vars

(***************************************************************************)
(* SpecApp: the App over several sessions of one word with their           *)
(* controllers, the history store and the playback of the word: from the   *)
(* menu the learner starts a session, plays it or leaves it by the header  *)
(* button, goes back to the menu, and clears the history.  Sessions are    *)
(* started while the history has fewer than MaxHistory entries.            *)
(***************************************************************************)
\* the learner types in the input field of listen-spell
LS_type == currentMode = LISTEN_SPELL /\ \E value \in Typed : LS_onChange(value)

\* ListenSpell.handlePlaySound, from the play button
LS_handlePlaySound ==
    /\ currentMode = LISTEN_SPELL
    /\ speak([text |-> currentWord.word, lang |-> "en-US", rate |-> "0.7"])

\* the learner picks an option of fill-blank
FB_choose ==
    /\ currentMode = FILL_BLANK
    /\ \E option \in BagToSet(options) : FB_handleSelectOption(option)

\* a session of one word is started from the menu
startOneWord(mode) ==
    /\ Len(getHistory(storage).items) < MaxHistory
    /\ startSession(mode, SubSeq(k8Words, 1, 1), 1)

InitApp == AppLoaded(<< >>)

NextApp ==
    \/ \E mode \in QuizModes : startOneWord(mode)
    \/ LS_type
    \/ LS_tick(MaxTick)
    \/ LS_handlePlaySound
    \/ canPlayThrough(TRUE)
    \/ audioEnded
    \/ LS_handleSubmit
    \/ LS_handleNext
    \/ LS_handleSkip
    \/ FB_choose
    \/ FB_handleSubmit
    \/ FB_handleNext
    \/ FB_handleSkip
    \/ LP_type
    \/ LP_handleHint
    \/ LP_handleSubmit
    \/ LP_handleNext
    \/ LP_handleSkip
    \/ backToMenu
    \/ handleClearHistory

SpecApp == InitApp /\ [][NextApp]_vars

(***************************************************************************)
(* Steps of the speech service the properties speak of                     *)
(***************************************************************************)
\* audio of call id starts playing in this step, on either channel
DictionaryStarts(id) == ~audio.playing /\ audio'.playing /\ audio'.handlers = id

SynthesisStarts(id) ==
    synth.phase # "speaking" /\ synth'.phase = "speaking" /\ synth'.call = id

\* call id is the newest of the speak and stop calls made
Newest(id, made) == id = Len(made)

\* the first event of the dictionary attempt of call id comes in this step:
\* can-play, error, or the timeout
CanPlayFirst(id) ==
    /\ calls[id].state = "loading"
    /\ audio.handlers = id /\ audio.load = "loading" /\ audio'.load = "ready"

ErrorFirst(id) ==
    /\ calls[id].state = "loading"
    /\ audio.handlers = id /\ audio.load = "loading" /\ audio'.load = "failed"

TimeoutFirst(id) ==
    /\ calls[id].state = "loading"
    /\ calls[id].timer /\ ~calls'[id].timer
    /\ audio' = audio

\* the dictionary attempt of call id ends in this step by an error event or
\* by its timeout
FailsToLoad(id) ==
    IF id \in 1..Len(calls) THEN ErrorFirst(id) \/ TimeoutFirst(id) ELSE FALSE

\* the fallback path is taken for call id in this step
TakesFallback(id) ==
    /\ calls'[id].state = "resolved"
    /\ calls'[id].outcome = "fallback"

\* call id has been made and its promise is in the given state
InState(id, state) ==
    IF id \in 1..Len(calls) THEN calls[id].state = state ELSE FALSE

(***************************************************************************)
(* C16: every speak call first cancels the playback in flight on both      *)
(* channels, so that once a newer speak call or a stop call has been made  *)
(* no audio of an earlier speak request starts or continues playing: only  *)
(* the text of the newest speak request can begin playing.                 *)
(* Violated: the timeout and the handlers of a superseded attempt stay     *)
(* live.                                                                   *)
(***************************************************************************)
C16_OnlyNewestRequestPlays ==
    /\ [](/\ audio.playing => Newest(audio.handlers, calls)
          /\ synth.phase = "speaking" => Newest(synth.call, calls))
    /\ [][/\ Len(calls') > Len(calls) =>
                ~audio'.playing /\ synth'.phase # "speaking"
          /\ \A id \in 1..MaxCalls :
                (DictionaryStarts(id) \/ SynthesisStarts(id)) => Newest(id, calls')
         ]_vars

(***************************************************************************)
(* C17: when the dictionary attempt of a single-word speak request fails   *)
(* by load error or by the 3 s timeout and the preference is not           *)
(* dictionary-only, the synthesis is given an utterance with the same text *)
(* and the language and rate given to speak (en-US and 0.8 when left out). *)
(* Violated: the speak of the first render runs speakWithWebSpeech with    *)
(* isSupported = false.                                                    *)
(***************************************************************************)
C17_FallbackSpeaksSameText ==
    [][\A id \in 1..MaxCalls :
          (FailsToLoad(id) /\ calls[id].source # "dictionary") =>
              /\ synth'.phase = "pending"
              /\ synth'.call = id
              /\ synth'.text = calls[id].text
              /\ synth'.lang = calls[id].lang
              /\ synth'.rate = calls[id].rate
              /\ calls[id].text = cat => synth'.lang = "en-US" /\ synth'.rate = "0.8"
      ]_vars

(***************************************************************************)
(* C18: every speak call eventually resolves, for every preference and     *)
(* every outcome of the dictionary attempt, also when another speak or     *)
(* stop call arrives while the attempt is loading.                         *)
(* Violated: after unmount the can-play handler clears the timeout and     *)
(* then raises on audioRef.current.play(); the promise is never settled.   *)
(***************************************************************************)
C18_EverySpeakResolves ==
    \A id \in 1..MaxCalls : InState(id, "loading") ~> InState(id, "resolved")

(***************************************************************************)
(* C19: when a dictionary attempt ends by load error or 3 s timeout,       *)
(* isSpeaking stays false from the start of the speak call until the start *)
(* event of the fallback's utterance, and becomes true at that event, not  *)
(* before.                                                                 *)
(* Violated: after the timeout the element is still loading with the       *)
(* can-play handler installed, which sets isSpeaking when it fires.        *)
(***************************************************************************)
C19_SilentUntilFallbackStarts ==
    /\ [](Len(calls) = 1 /\ calls[1].state = "loading" => ~isSpeaking)
    /\ [][\A id \in 1..Len(calls) :
             (/\ Newest(id, calls)
              /\ calls[id].outcome = "fallback"
              /\ synth.phase = "pending" /\ synth.call = id
              /\ hook = "mounted"
              /\ ~isSpeaking) =>
                 /\ isSpeaking' => SynthesisStarts(id)
                 /\ SynthesisStarts(id) /\ hook' = "mounted" => isSpeaking'
         ]_vars

SpeakStep(id) ==
    /\ Len(calls') = Len(calls) + 1
    /\ id = Len(calls')
    /\ calls'[id].op = "speak"

StopStep == calls' = Append(calls, StopCall)

\* an utterance of call id is given to the synthesis in this step
SynthesisInvoked(id) ==
    /\ synth'.phase = "pending" /\ synth'.call = id
    /\ synth.phase # "pending" \/ synth.call # id

C22_StopIsSafeAndIdempotent ==
    /\ [](hook = "mounted" /\ Len(calls) < MaxCalls => ENABLED stop)
    /\ [][StopStep =>
             /\ ~audio'.playing
             /\ synth'.phase = "idle"
             /\ ~isSpeaking'
             /\ (~audio.playing /\ synth.phase = "idle" /\ ~isSpeaking) =>
                   /\ audio' = audio
                   /\ synth' = synth
                   /\ UNCHANGED <<hook, isSpeaking, isSupported, audioSource,
                                  audioRef>>
         ]_vars

\* stop() was called while the dictionary audio of a request was loading
C22_Witness ==
    /\ Len(calls) = 2
    /\ calls[1].op = "speak" /\ calls[1].state = "loading"
    /\ calls[2] = StopCall
    /\ audio.load = "loading" /\ ~audio.playing
    /\ synth.phase = "idle"
    /\ ~isSpeaking

\* nothing is active on either channel: no speak call was made yet, or the
\* playback has ended or was stopped
NothingActive ==
    /\ hook = "mounted"
    /\ ~audio.playing /\ audio.load # "loading"
    /\ synth.phase = "idle"
    /\ ~isSpeaking

(***************************************************************************)
(* C23: pause() and resume() act only on a channel that is active: when    *)
(* nothing is active (no speak yet, after stop(), or after the playback    *)
(* has ended) both are no-ops that start no audio and leave isSpeaking and *)
(* both channels unchanged.                                                *)
(* Violated: resume() plays the element whenever it is paused and has a    *)
(* src, also when its audio has ended or was stopped.                      *)
(***************************************************************************)
C23_PauseResumeNoOpWhenIdle ==
    [][(NothingActive /\ (pause \/ \E started \in BOOLEAN : resume(started))) =>
          UNCHANGED <<audio, synth, isSpeaking>>
      ]_vars

(***************************************************************************)
(* C30: for a single speak request the two channels never both start       *)
(* playing: once the 3 s timeout or an error has sent the request to the   *)
(* synthesis fallback, a can-play event arriving later for the same        *)
(* request neither starts dictionary playback nor sets isSpeaking.         *)
(* Violated: the timeout rejects the promise but leaves the can-play       *)
(* handler on the element.                                                 *)
(***************************************************************************)
C30_LateCanPlayIsIgnored ==
    [][(/\ Len(calls) = 1
        /\ hook = "mounted"
        /\ calls[1].outcome = "fallback"
        /\ audio.handlers = 1 /\ audio.load = "loading" /\ ~audio.playing
        /\ audio'.load = "ready") =>
            /\ ~audio'.playing
            /\ isSpeaking' = isSpeaking
      ]_vars

(***************************************************************************)
(* C24: the puzzle generated for a word has the word's length, masks       *)
(* exactly the middle index floor(length / 2) of a word of up to 3         *)
(* letters, every odd 0-based index of a word of 4 to 6 letters and the    *)
(* indices i with i mod 3 = 1 or i mod 5 = 2 of a longer word, and shows   *)
(* the word's own character everywhere else; "cat" gives "c_t" and         *)
(* "garden" gives "g_r_e_".  A letter puzzle on which no hint was taken    *)
(* shows that puzzle of the current word.                                  *)
(***************************************************************************)
\* the 0-based indices the masking policy hides in a word of n letters
MaskedIndices(n) ==
    IF n <= 3 THEN {n \div 2}
    ELSE IF n <= 6 THEN {i \in 0..(n - 1) : i % 2 = 1}
    ELSE {i \in 0..(n - 1) : i % 3 = 1 \/ i % 5 = 2}

IsPuzzleOf(p, word) ==
    /\ Len(p) = Len(word)
    /\ \A i \in 1..Len(word) :
           p[i] = IF (i - 1) \in MaskedIndices(Len(word)) THEN "_" ELSE word[i]

C24_PuzzleMasksByLength ==
    /\ \A w \in {cat, dog, book, garden, elephant} :
           IsPuzzleOf(generateLetterPuzzle(w), w)
    /\ generateLetterPuzzle(cat) = <<"c", "_", "t">>
    /\ generateLetterPuzzle(garden) = <<"g", "_", "r", "_", "e", "_">>
    /\ (currentMode = LETTER_PUZZLE /\ hintsUsed = 0) =>
           IsPuzzleOf(puzzle, currentWord.word)

\* the second word of a session is "elephant", freshly masked at 1, 2, 4, 7
C24_Witness ==
    /\ currentMode = LETTER_PUZZLE
    /\ currentIndex = 1
    /\ currentWord.word = elephant
    /\ hintsUsed = 0
    /\ puzzle = <<"e", "_", "_", "p", "_", "a", "n", "_">>

(***************************************************************************)
(* C25: whatever positions the hints taken so far revealed, the puzzle of  *)
(* the current word shows the word's letter at every position that is not *)
(* masked, and the masked positions left plus the hints taken are the      *)
(* positions the generated puzzle masked, so that after as many hints as   *)
(* there were masked positions the puzzle is the word; every result of     *)
(* getHint on it reveals exactly one masked position with the word's       *)
(* letter and changes nothing else, and when no position is masked getHint *)
(* returns the puzzle unchanged.                                           *)
(***************************************************************************)
RevealsOne(before, after, word) ==
    \E r \in hiddenIndices(before) :
        /\ after[r] = word[r]
        /\ after[r] # "_"
        /\ Len(after) = Len(before)
        /\ \A i \in 1..Len(before) : i # r => after[i] = before[i]

C25_HintsRevealTheWord ==
    currentMode = LETTER_PUZZLE =>
        LET word == currentWord.word
            masked == Cardinality(hiddenIndices(generateLetterPuzzle(word)))
        IN  /\ Len(puzzle) = Len(word)
            /\ \A i \in 1..Len(word) : puzzle[i] \in {"_", word[i]}
            /\ Cardinality(hiddenIndices(puzzle)) + hintsUsed = masked
            /\ hintsUsed = masked => puzzle = word
            /\ hiddenIndices(puzzle) # {} =>
                   /\ getHint(puzzle, word) # {}
                   /\ \A after \in getHint(puzzle, word) : RevealsOne(puzzle, after, word)
            /\ hiddenIndices(puzzle) = {} => getHint(puzzle, word) = {puzzle}

\* four hints revealed the four masked letters of "elephant"
C25_Witness ==
    /\ currentMode = LETTER_PUZZLE
    /\ currentWord.word = elephant
    /\ hintsUsed = 4
    /\ puzzle = elephant
    /\ getHint(puzzle, elephant) = {elephant}

(***************************************************************************)
(* C26: every list generateWrongOptions can return for the working         *)
(* sequence, the current word and count 3 leaves out the correct word, has *)
(* at most min(3, length - 1) entries, and has pairwise distinct entries.  *)
(* Violated: a word the learner missed is in the working sequence twice,   *)
(* and both copies can be returned.                                        *)
(***************************************************************************)
NeverCorrect(list, correctWord) == \A i \in 1..Len(list) : list[i] # correctWord

PairwiseDistinct(list) == \A i, j \in 1..Len(list) : i # j => list[i] # list[j]

C26_WrongOptionsDistinct ==
    currentMode = FILL_BLANK =>
        \A list \in generateWrongOptions(words, currentWord.word, 3) :
            /\ NeverCorrect(list, currentWord.word)
            /\ Len(list) <= Min(3, Len(words) - 1)
            /\ PairwiseDistinct(list)

\* the two parts of C26 the code keeps
C26_WrongOptionsNeverCorrect ==
    currentMode = FILL_BLANK =>
        \A list \in generateWrongOptions(words, currentWord.word, 3) :
            /\ NeverCorrect(list, currentWord.word)
            /\ Len(list) <= Min(3, Len(words) - 1)

Entries(ws, w) == Cardinality({k \in 1..Len(ws) : ws[k].word = w})

OffersCorrectAndWrong(opts, ws, correctWord) ==
    /\ CopiesIn(correctWord, opts) = 1
    /\ BagCardinality(opts) = 1 + Min(3, Len(ws) - Entries(ws, correctWord))
    /\ \A w \in BagToSet(opts) : CopiesIn(w, opts) <= Entries(ws, w)

Stripped(s) ==
    LET inked == {i \in 1..Len(s) : s[i] # " "}
    IN  IF inked = {} THEN << >>
        ELSE SubSeq(s, CHOOSE i \in inked : \A k \in inked : i <= k,
                       CHOOSE i \in inked : \A k \in inked : i >= k)

SameUpToCase(a, b) ==
    /\ Len(a) = Len(b)
    /\ \A i \in 1..Len(a) : UpperChar(a[i]) = UpperChar(b[i])

Agree(a, b) == SameUpToCase(Stripped(a), Stripped(b))

AnswerTexts ==
    {EMPTY, BLANK, WRONG, cat, book, <<"C", "a", "t">>, <<"c", "a", "t", " ", " ">>,
     <<"c", " ", "t">>, <<" ", "C", "A", "T", " ">>, <<"c", "a">>}

C29_CorrectMeansCheckAnswer ==
    [][/\ \A a, b \in AnswerTexts :
              /\ checkAnswer(a, b) = Agree(a, b)
              /\ checkAnswer(a, b) = checkAnswer(b, a)
       /\ (currentMode \in QuizModes /\ ~showAnswer /\ showAnswer') =>
              LET submitted == IF currentMode = FILL_BLANK THEN selectedAnswer
                               ELSE userInput
                  agrees == Agree(submitted, currentWord.word)
              IN  /\ isCorrect' = Bool(agrees)
                  /\ Len(results') = Len(results) + 1
                  /\ results'[Len(results')].userAnswer = submitted
                  /\ results'[Len(results')].word = currentWord.word
                  /\ results'[Len(results')].correct = agrees
      ]_vars

\* the word typed in capitals between spaces was marked correct
C29_Witness ==
    /\ currentMode \in {LISTEN_SPELL, LETTER_PUZZLE}
    /\ showAnswer
    /\ userInput = BLANK \o toUpperCase(currentWord.word) \o BLANK
    /\ userInput # currentWord.word
    /\ isCorrect = "true"
    /\ results[Len(results)].correct

(***************************************************************************)
(* C31: isSpeaking is true only while a playback channel has audio in      *)
(* progress.  While the component is mounted, isSpeaking becomes true only *)
(* in a step after which the dictionary audio plays or an utterance is     *)
(* being spoken, and when a step other than pause() ends the audio in      *)
(* progress, isSpeaking is false after it.                                 *)
(* Violated: the can-play handler sets isSpeaking before it asks the       *)
(* element to play, and nothing clears it when that request is rejected.   *)
(***************************************************************************)
AudioInProgress == audio.playing \/ synth.phase = "speaking"

C31_SpeakingOnlyWhileAudio ==
    [][hook' = "mounted" =>
          /\ (~isSpeaking /\ isSpeaking') => AudioInProgress'
          /\ (AudioInProgress /\ ~AudioInProgress' /\ ~pause) => ~isSpeaking'
      ]_vars

(***************************************************************************)
(* C32: in a listen-spell session (hybrid preference, the browser has      *)
(* speech synthesis), when the dictionary audio of the word being played   *)
(* fails to load or times out while its component is mounted and no later  *)
(* request was made, the word is handed to the synthesis; this holds for   *)
(* the word played at mount too.                                           *)
(* Violated for the word played at mount: its speak was created by the     *)
(* first render, where isSupported is still false.                         *)
(***************************************************************************)
HandsWordToSynthesis(id) ==
    /\ synth'.phase = "pending"
    /\ synth'.call = id
    /\ synth'.text = calls[id].text

FailsWhilePresented(id) ==
    /\ FailsToLoad(id)
    /\ hook = "mounted"
    /\ Newest(id, calls)
    /\ calls[id].source = "hybrid"

C32_FailedAutoPlayIsSpoken ==
    [][\A id \in 1..MaxCalls : FailsWhilePresented(id) => HandsWordToSynthesis(id)]_vars

\* the part of C32 the code keeps: the words played after the mount
C32_LaterWordsAreSpoken ==
    [][\A id \in 2..MaxCalls : FailsWhilePresented(id) => HandsWordToSynthesis(id)]_vars

(***************************************************************************)
(* C33: during a session currentIndex is an index of the working sequence  *)
(* (0 <= currentIndex < length), an insertion puts its entry at an index   *)
(* greater than currentIndex, and no step changes, reorders or shifts the  *)
(* entries at the indices up to currentIndex.                              *)
(***************************************************************************)
IndexInRange(index, ws) == index >= 0 /\ index < Len(ws)

C33_AttemptedWordsStayInPlace ==
    [][InSession =>
          /\ IndexInRange(currentIndex, words)
          /\ IndexInRange(currentIndex', words')
          /\ Len(words') >= Len(words)
          /\ \A k \in 0..currentIndex : words'[k + 1] = words[k + 1]
          /\ Len(words') > Len(words) =>
                 \E pos \in (currentIndex + 1)..Len(words) :
                     words' = WithInserted(words, pos, words'[pos + 1])
      ]_vars

\* the second word is presented, the first words stand where they stood, and
\* the copy of the missed first word was inserted behind them
C33_Witness ==
    /\ InSession
    /\ currentIndex = 1
    /\ Len(words) = 5
    /\ \A k \in 1..3 : words[k] = [word |-> selectedWords[k].word, retryCount |-> 0]
    /\ words[4] = RetryCopy(words[1])

(***************************************************************************)
(* C34: a session over n initial words in which the learner keeps          *)
(* answering or skipping and advancing reaches Complete; it records at     *)
(* most 2n attempts, its working sequence never holds more than 2n         *)
(* entries, and no initial word has more than one copy with                *)
(* retryCount = 1.                                                         *)
(***************************************************************************)
C34_SessionTerminates ==
    /\ [](/\ Len(results) <= 2 * Len(selectedWords)
          /\ Len(words) <= 2 * Len(selectedWords)
          /\ currentIndex + 1 <= 2 * Len(selectedWords)
          /\ \A k \in 1..Len(selectedWords) :
                 Cardinality(CopiesOf(words, selectedWords[k].word)) <= 1)
    /\ <>(Phase = "Complete")

\* a session over two words completed after four attempts
C34_Witness ==
    /\ Phase = "Complete"
    /\ Len(selectedWords) = 2
    /\ Len(words) = 4
    /\ Len(results) = 4
    /\ currentIndex = 3

(***************************************************************************)
(* C35: in letter-puzzle every word of a session, retries included, is     *)
(* entered with hintsUsed = 0 and the freshly generated puzzle of the      *)
(* word; in every state hintsUsed plus the number of positions still       *)
(* masked is the number of positions generateLetterPuzzle masks for the    *)
(* word; and the hintsUsed of every AnswerResult is the counter of its own *)
(* word, at most the number of positions masked for it.                    *)
(***************************************************************************)
MaskCount(word) == Cardinality(hiddenIndices(generateLetterPuzzle(word)))

HintsAccounted ==
    /\ hintsUsed + Cardinality(hiddenIndices(puzzle)) = MaskCount(currentWord.word)
    /\ \A k \in 1..Len(results) :
           /\ results[k].word = words[k].word
           /\ results[k].hintsUsed \in 0..MaskCount(words[k].word)

C35_HintCounterPerWord ==
    [][/\ currentMode = LETTER_PUZZLE => HintsAccounted
       /\ currentMode' = LETTER_PUZZLE => HintsAccounted'
       /\ (currentMode = LETTER_PUZZLE /\ currentMode' = LETTER_PUZZLE
           /\ currentIndex' # currentIndex) =>
              /\ hintsUsed' = 0
              /\ puzzle' = generateLetterPuzzle(words'[currentIndex' + 1].word)
       /\ (currentMode = LETTER_PUZZLE /\ Records) =>
              results'[Len(results')].hintsUsed = hintsUsed
      ]_vars

\* the copy of a word missed after a hint is presented with no hint counted
C35_Witness ==
    /\ currentMode = LETTER_PUZZLE
    /\ currentIndex = 2
    /\ words[3] = RetryCopy(words[1])
    /\ results[1].hintsUsed = MaskCount(words[1].word)
    /\ results[1].hintsUsed > 0
    /\ hintsUsed = 0
    /\ puzzle = generateLetterPuzzle(currentWord.word)

(***************************************************************************)
(* C36: in listen-spell the elapsed time and the timeout flag are reset    *)
(* when a word is entered, the elapsed time changes only by one tick at a  *)
(* time while the word is in Presenting (never while Answered), and the    *)
(* timeout tag of the AnswerResult recorded by a submit or a skip is true  *)
(* exactly when 30 ticks or more elapsed on that word; so a timeout on one *)
(* word does not mark the result of a later word.                          *)
(***************************************************************************)
C36_TimeoutTagIsPerWord ==
    [][currentMode = LISTEN_SPELL =>
          /\ isTimeout = (elapsedTime >= TIMEOUT_SECONDS)
          /\ (currentMode' = LISTEN_SPELL /\ currentIndex' # currentIndex) =>
                 /\ elapsedTime' = 0
                 /\ ~isTimeout'
                 /\ Phase' = "Presenting"
          /\ (currentMode' = LISTEN_SPELL /\ currentIndex' = currentIndex) =>
                 /\ elapsedTime' \in {elapsedTime, elapsedTime + 1}
                 /\ elapsedTime' # elapsedTime => Phase = "Presenting"
          /\ Records =>
                 /\ Phase = "Presenting"
                 /\ results'[Len(results')].word = currentWord.word
                 /\ results'[Len(results')].timeout = (elapsedTime >= TIMEOUT_SECONDS)
      ]_vars

\* the first word was answered after the 30 seconds, the second within them
C36_Witness ==
    /\ currentMode = LISTEN_SPELL
    /\ currentIndex = 1
    /\ Len(results) = 2
    /\ results[1].timeout
    /\ ~results[2].timeout
    /\ elapsedTime < TIMEOUT_SECONDS

(***************************************************************************)
(* C37: the options fill-blank offers for a word are pairwise different    *)
(* strings in every Presenting phase of a session.                         *)
(* Violated: after a miss the working sequence holds the missed word       *)
(* twice, and the wrong options are drawn from its entries.                *)
(***************************************************************************)
C37_OptionsAreDifferent ==
    (currentMode = FILL_BLANK /\ Phase = "Presenting") =>
        \A option \in BagToSet(options) : CopiesIn(option, options) = 1

\* the part of C37 the code keeps: until a retry copy is inserted
C37_DifferentBeforeRetries ==
    (currentMode = FILL_BLANK /\ Phase = "Presenting" /\ Len(words) = Len(selectedWords)) =>
        \A option \in BagToSet(options) : CopiesIn(option, options) = 1

(***************************************************************************)
(* C38: the persisted history changes only when a session completes or     *)
(* when the history is cleared.  A completion puts exactly one entry in    *)
(* front of the history as it was, a clear leaves it empty, and every      *)
(* other step (starting a session, typing, choosing, hints, submit, skip   *)
(* or advance within the session, timer ticks, playback of the word,       *)
(* going back to the menu, also from the middle of a session) leaves the   *)
(* stored record as it is; so the length of the history is the number of   *)
(* sessions completed since it was last cleared.                           *)
(***************************************************************************)
Completes == currentMode \in QuizModes /\ currentMode' = RESULTS

C38_HistoryChangesOnlyAtCompletionOrClear ==
    [][LET before == getHistory(storage).items
           after == getHistory(storage').items
       IN  /\ storage' # storage => (Completes \/ handleClearHistory)
           /\ Completes => (Len(after) = Len(before) + 1 /\ Tail(after) = before)
           /\ handleClearHistory => (storage' = << >> /\ after = << >>)
           /\ ~(Completes \/ handleClearHistory) => after = before
           /\ Len(after) \in {0, Len(before), Len(before) + 1}
      ]_vars

\* with two sessions in the history a third one is under way: the word is
\* playing, a second has passed and the learner has typed
C38_Witness ==
    /\ Len(getHistory(storage).items) = 2
    /\ currentMode = LISTEN_SPELL
    /\ audio.playing
    /\ elapsedTime = 1
    /\ userInput # EMPTY
    /\ results = << >>

(***************************************************************************)
(* Sequences taken from a pool                                             *)
(***************************************************************************)
\* every sequence of min(k, length) entries taken at distinct positions of pool
ShuffledPrefixes(pool, k) ==
    LET n == Min(k, Len(pool))
        picks == {f \in [1..n -> 1..Len(pool)] : \A a, b \in 1..n : a # b => f[a] # f[b]}
    IN  {[i \in 1..n |-> pool[f[i]]] : f \in picks}

(***************************************************************************)
(* C28: for every random outcome shuffleArray leaves its argument as it    *)
(* was and returns a sequence with the same entries in the same            *)
(* multiplicities; selectRandomWords(words, count) returns                 *)
(* min(count, length) entries taken at distinct positions of words; and    *)
(* the words of a session started from the menu are taken at distinct      *)
(* positions of the library, so that no word is repeated.                  *)
(***************************************************************************)
IsPermutationOf(input, r) ==
    /\ r.array = input
    /\ Len(r.shuffled) = Len(input)
    /\ SeqToBag(r.shuffled) = SeqToBag(input)

C28_ShuffleIsAPermutation ==
    /\ \A input \in {<< >>, <<cat>>, <<cat, dog, cat>>, pickLibrary} :
           /\ shuffleArray(input) # {}
           /\ \A r \in shuffleArray(input) : IsPermutationOf(input, r)
    /\ \A count \in 0..(Len(pickLibrary) + 1) :
           /\ selectRandomWords(pickLibrary, count) # {}
           /\ \A picked \in selectRandomWords(pickLibrary, count) :
                  /\ Len(picked) = Min(count, Len(pickLibrary))
                  /\ picked \in ShuffledPrefixes(pickLibrary, count)
    /\ currentMode \in QuizModes =>
           /\ Len(selectedWords) \in 1..Min(MaxPick, Len(pickLibrary))
           /\ selectedWords \in ShuffledPrefixes(pickLibrary, Len(selectedWords))
           /\ \A i, j \in 1..Len(selectedWords) :
                  i # j => selectedWords[i].word # selectedWords[j].word
           /\ words = [i \in 1..Len(selectedWords) |->
                          [word |-> selectedWords[i].word, retryCount |-> 0]]

\* a session of three words starts with the fourth word of the library
C28_Witness ==
    /\ currentMode \in QuizModes
    /\ selectedWords = <<[word |-> pen], [word |-> cat], [word |-> sun]>>
    /\ Len(words) = 3

====
